---- MODULE Spec2Model ----
(***************************************************************************)
(* Model of the multi-agent research application:                          *)
(*   - BaseAgent.call_claude, the model call with its tool-use loop        *)
(*     (src/agents/base.py),                                               *)
(*   - the tool_executor closure of the workflow                           *)
(*     (src/orchestration/workflow.py),                                    *)
(*   - the four role agents (src/agents/coordinator.py, researcher.py,     *)
(*     synthesizer.py, critic.py),                                         *)
(*   - run_research_workflow (src/orchestration/workflow.py).              *)
(* The model service (client.messages.create) and the search service       *)
(* (execute_web_search) are the environment: their answers are chosen      *)
(* nondeterministically from small sets.                                   *)
(***************************************************************************)
EXTENDS Naturals, Sequences, FiniteSets, TLC

VARIABLES
    entry,          \* the public operation the caller invoked ("none" before)
    ccPc,           \* position in call_claude
    messages,       \* call_claude: the local turn sequence
    tools,          \* call_claude: TRUE iff a tools list was passed
    executor,       \* call_claude: the tool_executor argument ("None" = no executor)
    response,       \* call_claude: the response being handled
    blockIdx,       \* call_claude: index of the for loop over response.content
    tool_results,   \* call_claude: results collected for the current response
    ccResult,       \* call_claude: returned Message, or the raised exception
    requests,       \* log: the requests received by client.messages.create
    responses,      \* log: the responses client.messages.create gave
    dispatchLog,    \* log: the calls made to tool_executor, with their outcome
    serviceError,   \* log: the failure the model service raised, if any
    agPc,           \* position in the role agent's method
    agent,          \* the role agent whose method runs ("none" if none)
    agKwargs,       \* keyword arguments the agent method was called with
    agArg,          \* the positional argument of the agent method
    agResult,       \* value returned / exception raised by the agent method
    wfPc,           \* position in run_research_workflow
    subtasks,       \* workflow: the Coordinator's output
    research_results, \* workflow: the list of research results
    resIdx,         \* workflow: index of the for loop over subtasks
    synthesis,      \* workflow: the Synthesizer's output
    critique,       \* workflow: the Critic's output
    wfResult,       \* workflow: the WorkflowResult returned / exception raised
    wfCalls,        \* log: the agent calls the workflow made, with their outcome
    earlier,        \* log: one entry per call_claude call that ended: the ids
                    \* its turns held and the tools requested up to its end
    mainPc,         \* position in main
    config,         \* main: what the command line and the environment hold
    exitStatus,     \* main: the status the process ended with
    reported,       \* main: what was printed for the failure ("none" if nothing)
    pPc,            \* agents.parsing / agents.models: position of the caller
    pInput,         \* the argument: a text, or a payload to validate
    json_str,       \* what extract_json_from_text gave
    cleaned,        \* what the successive calls of clean_json_string gave
    validated,      \* what validation against the schema gave
    errors,         \* parse_llm_response: the messages of the failed strategies
    attempts,       \* log: the strategies tried, with what each gave
    fallbackCalls,  \* log: the arguments the fallback parser was called with
    parsed          \* parse_llm_response: the model returned / exception raised

ccVars == <<ccPc, messages, tools, executor, response, blockIdx, tool_results,
            ccResult, requests, responses, dispatchLog, serviceError>>
agVars == <<agPc, agent, agKwargs, agArg, agResult>>
wfVars == <<wfPc, subtasks, research_results, resIdx, synthesis, critique,
            wfResult, wfCalls>>
mainVars == <<mainPc, config, exitStatus, reported>>
programVars == <<entry, ccVars, agVars, wfVars, earlier, mainVars>>
llmVars == <<errors, attempts, fallbackCalls, parsed>>
parseVars == <<pPc, pInput, json_str, cleaned, validated, llmVars>>
vars == <<programVars, parseVars>>

----------------------------------------------------------------------------
(* Bounds of the model *)

\* most tool-requesting responses the model service gives to one caller
MaxRounds == 2
\* most tool_use blocks the model service emits to one caller
MaxToolUses == 2

\* Python's None as an argument
None == "None"
\* a local or a result that holds nothing yet
NoValue == [kind |-> "none"]

----------------------------------------------------------------------------
(* Values exchanged with the model service *)

\* the (name, input) pairs a tool_use block may carry
ToolRequests ==
    { [name |-> "web_search", input |-> [query |-> "q1"]],
      [name |-> "web_search", input |-> [topic |-> "t1"]],
      [name |-> "calculator", input |-> [query |-> "q1"]] }

TextBlock(t) == [type |-> "text", text |-> t]

ToolUseBlock(req, id) ==
    [type |-> "tool_use", name |-> req.name, input |-> req.input, id |-> id]

\* json.dumps of a value: the value wrapped as serialized text
JsonDumps(v) == [json |-> v]

\* number of tool_use blocks in a content list
RECURSIVE CountToolUse(_)
CountToolUse(content) ==
    IF content = << >> THEN 0
    ELSE (IF Head(content).type = "tool_use" THEN 1 ELSE 0)
         + CountToolUse(Tail(content))

\* number of tool_use blocks in a sequence of responses
RECURSIVE ToolUsesIn(_)
ToolUsesIn(rs) ==
    IF rs = << >> THEN 0
    ELSE CountToolUse(Head(rs).content) + ToolUsesIn(Tail(rs))

\* number of responses with stop_reason "tool_use" in a sequence of responses
ToolRounds(rs) ==
    Cardinality({i \in 1..Len(rs) : rs[i].stop_reason = "tool_use"})

----------------------------------------------------------------------------
(* The tool executors call_claude may be given *)

Returned(v) == [kind |-> "return", value |-> v]
Raised(exc, msg) == [kind |-> "raise", exc |-> exc, msg |-> msg]

\* what execute_web_search may do: return ranked results, or fail
SearchOutcomes ==
    { Returned("search_results"),
      Raised("Exception", <<"Tavily search failed">>) }

\* the closure returning no results for a tool it does not know
tool_executor_lenient(tool_name, tool_input, search) ==
    IF tool_name = "web_search"
    THEN IF "query" \in DOMAIN tool_input
         THEN search
         ELSE Raised("KeyError", <<"query">>)
    ELSE Returned("no_results")

\* the tool_executor closure of run_research_workflow
tool_executor(tool_name, tool_input, search) ==
    IF tool_name = "web_search"
    THEN IF "query" \in DOMAIN tool_input
         THEN search
         ELSE Raised("KeyError", <<"query">>)
    ELSE Raised("ValueError", <<"Unknown tool: ", tool_name>>)

\* what an arbitrary callable passed as tool_executor may do
MockOutcomes ==
    { Returned("mock_results"),
      Returned("unserializable_object"),
      Raised("Exception", <<"API rate limit exceeded">>) }

\* the outcomes of tool_executor(tool_name, tool_input) for each executor
ExecutorOutcomes(ex, tool_name, tool_input) ==
    CASE ex = "workflow" ->
           { tool_executor(tool_name, tool_input, s) : s \in SearchOutcomes }
      [] ex = "mock" -> MockOutcomes
      [] OTHER -> { Raised("TypeError", <<"'NoneType' object is not callable">>) }

\* json.dumps raises TypeError on a value it cannot serialize
Serializable(v) == v # "unserializable_object"

SuccessResult(tool_use_id, result) ==
    [type |-> "tool_result", tool_use_id |-> tool_use_id,
     content |-> JsonDumps(result)]

\* the error result built without its is_error flag
ErrorResultUnflagged(tool_use_id, msg) ==
    [type |-> "tool_result", tool_use_id |-> tool_use_id,
     content |-> JsonDumps([error |-> msg])]

ErrorResult(tool_use_id, msg) ==
    [type |-> "tool_result", tool_use_id |-> tool_use_id,
     content |-> JsonDumps([error |-> msg]), is_error |-> TRUE]

\* the try/except around one tool execution: the tool_result appended
ToolResultFor(block, outcome) ==
    IF outcome.kind = "return"
    THEN IF Serializable(outcome.value)
         THEN SuccessResult(block.id, outcome.value)
         ELSE ErrorResult(block.id, <<"Object is not JSON serializable">>)
    ELSE ErrorResult(block.id, outcome.msg)

----------------------------------------------------------------------------
(* The model service *)

\* the text of a final answer: how it is wrapped and what it holds
Text(fence, body) == [fence |-> fence, body |-> body]
PlainText == Text("none", [raw |-> "prose"])

\* JSON values, tagged with their Python type
JStr(x) == [t |-> "str", v |-> x]
JNum(x) == [t |-> "num", v |-> x]
JBool(x) == [t |-> "bool", v |-> x]
JList(x) == [t |-> "list", v |-> x]
JDict(x) == [t |-> "dict", v |-> x]

\* a text body: a JSON document (the serialization of v), or prose
JsonBody(v) == JsonDumps(v)
ProseBody == [raw |-> "prose"]

SubtaskNames == <<"s1", "s2", "s3", "s4", "s5">>

\* a plain-text answer of n numbered lines, one subtask a line, not JSON
LinesBody(n) ==
    [raw |-> "lines",
     lines |-> [i \in 1..n |-> [marker |-> "1.", text |-> SubtaskNames[i]]]]
SubtaskList(n) == JList([i \in 1..n |-> JStr(SubtaskNames[i])])

\* the answers the model may give to the Coordinator
CoordinatorBodies ==
    { JsonBody(SubtaskList(n)) : n \in 1..Len(SubtaskNames) }
    \cup { JsonBody(JList(<<JStr("s1"), JNum(7)>>)),
           JsonBody(JList(<<JStr("s1"), JStr(" ")>>)),
           JsonBody(JDict([subtasks |-> SubtaskList(2)])),
           LinesBody(3),
           ProseBody }

Finding ==
    JDict([claim |-> JStr("claim"), source |-> JStr("url"),
           details |-> JStr("details")])

ResearchDict(subtask, findings) ==
    JDict([subtask |-> JStr(subtask), findings |-> findings])

\* the answers the model may give to the Researcher asked about subtask
ResearcherBodies(subtask) ==
    { JsonBody(ResearchDict(subtask, JList(<<Finding>>))),
      JsonBody(ResearchDict(subtask, JList(<< >>))),
      JsonBody(ResearchDict(subtask, JStr("none found"))),
      JsonBody(JDict([subtask |-> JStr(subtask)])),
      JsonBody(JList(<<Finding>>)),
      ProseBody }

Section ==
    JDict([title |-> JStr("title"), content |-> JStr("content"),
           sources |-> JList(<<JStr("url")>>)])

ReportDict(sections) ==
    JDict([summary |-> JStr("summary"), sections |-> sections,
           key_insights |-> JList(<<JStr("insight")>>)])

\* the answers the model may give to the Synthesizer
SynthesizerBodies ==
    { JsonBody(ReportDict(JList(<<Section>>))),
      JsonBody(ReportDict(JList(<< >>))),
      JsonBody(ReportDict(JStr("no sections"))),
      JsonBody(JDict([summary |-> JStr("summary")])),
      ProseBody }

ReviewDict(needs) ==
    JDict([overall_quality |-> JStr("good"), issues |-> JList(<< >>),
           suggestions |-> JList(<<JStr("suggestion")>>),
           needs_more_research |-> needs])

\* the answers the model may give to the Critic
CriticBodies ==
    { JsonBody(ReviewDict(JBool(FALSE))),
      JsonBody(ReviewDict(JStr("no"))),
      JsonBody(JDict([overall_quality |-> JStr("good")])),
      ProseBody }

\* how the answer is wrapped: not at all, ```json, ```JSON, or a bare ```
Fences == { "none", "json", "JSON", "bare" }

\* the final texts the model may give to agent a called with argument arg
Texts(a, arg) ==
    CASE a = "coordinator" ->
           { Text(f, b) : f \in Fences, b \in CoordinatorBodies }
      [] a = "researcher" ->
           { Text(f, b) : f \in Fences, b \in ResearcherBodies(arg) }
      [] a = "synthesizer" ->
           { Text(f, b) : f \in Fences, b \in SynthesizerBodies }
      [] a = "critic" ->
           { Text(f, b) : f \in Fences, b \in CriticBodies }
      [] OTHER -> { PlainText }

\* tool_use blocks for the requests reqs, with fresh invocation ids after n
ToolBlocks(reqs, n) ==
    [j \in 1..Len(reqs) |-> ToolUseBlock(reqs[j], n + j)]

\* the responses the model service may give to a caller it already gave
\* rounds tool-requesting responses holding uses tool_use blocks
ModelResponses(a, arg, rounds, uses) ==
    { [stop_reason |-> "end_turn", content |-> <<TextBlock(t)>>] :
        t \in Texts(a, arg) }
    \cup { [stop_reason |-> "end_turn", content |-> << >>] }
    \cup
    IF rounds < MaxRounds
    THEN { [stop_reason |-> "tool_use",
            content |-> lead \o ToolBlocks(reqs, uses)] :
             lead \in { << >>, <<TextBlock(PlainText)>> },
             reqs \in UNION { [1..k -> ToolRequests] :
                                k \in 0..(MaxToolUses - uses) } }
    ELSE {}

\* the invocation ids a turn holds: those of its tool_use blocks or of its
\* tool results
IdsOfTurn(turn) ==
    IF turn.role = "assistant"
    THEN { turn.content[j].id :
             j \in { i \in 1..Len(turn.content) : turn.content[i].type = "tool_use" } }
    ELSE { turn.content[j].tool_use_id : j \in 1..Len(turn.content) }

\* the invocation ids held by the turns after the first of a turn sequence
IdsOfTurns(turns) == UNION { IdsOfTurn(turns[i]) : i \in 2..Len(turns) }

\* the tool-requesting responses and the tool_use blocks the model service
\* gave during the calls that ended
RoundsBefore == IF earlier = << >> THEN 0 ELSE earlier[Len(earlier)].rounds
UsesBefore == IF earlier = << >> THEN 0 ELSE earlier[Len(earlier)].tool_uses

----------------------------------------------------------------------------
(* BaseAgent.call_claude *)

\* a slip in the stop reason compared with: no response counts as a tool request
IsToolUseWrongReason(r) == r.stop_reason = "tool_call"

IsToolUse(r) == r.stop_reason = "tool_use"

NoResponse == [stop_reason |-> None, content |-> << >>]

\* the turn sequence kept on the agent from one call to the next
BeginCallKeepsTurns(user_message, tls, ex) ==
    /\ messages' = Append(messages, [role |-> "user", content |-> user_message])
    /\ tools' = tls
    /\ executor' = ex
    /\ response' = NoResponse
    /\ blockIdx' = 0
    /\ tool_results' = << >>
    /\ ccResult' = NoValue
    /\ requests' = << >>
    /\ responses' = << >>
    /\ dispatchLog' = << >>
    /\ serviceError' = NoValue
    /\ ccPc' = "request"

\* lines 66-76: the turn sequence and the parameters of a new call
BeginCall(user_message, tls, ex) ==
    /\ messages' = << [role |-> "user", content |-> user_message] >>
    /\ tools' = tls
    /\ executor' = ex
    /\ response' = NoResponse
    /\ blockIdx' = 0
    /\ tool_results' = << >>
    /\ ccResult' = NoValue
    /\ requests' = << >>
    /\ responses' = << >>
    /\ dispatchLog' = << >>
    /\ serviceError' = NoValue
    /\ ccPc' = "request"

\* call_claude without its check for a missing tool_executor
HandleResponseUnchecked(r) ==
    IF IsToolUse(r)
    THEN /\ messages' = Append(messages,
               [role |-> "assistant", content |-> r.content])
         /\ response' = r
         /\ tool_results' = << >>
         /\ blockIdx' = 1
         /\ ccPc' = "dispatch"
         /\ UNCHANGED ccResult
    ELSE /\ ccPc' = "returned"
         /\ ccResult' = Returned(r)
         /\ UNCHANGED <<messages, response, blockIdx, tool_results>>

\* a loop with an iteration cap: the second tool-requesting response is
\* returned as it is
HandleResponseCapped(r) ==
    IF IsToolUse(r) /\ ToolRounds(responses) = 0
    THEN IF executor = None
         THEN /\ ccPc' = "raised"
              /\ ccResult' = Raised("ValueError",
                    <<"Tool use requested but no tool_executor provided">>)
              /\ UNCHANGED <<messages, response, blockIdx, tool_results>>
         ELSE /\ messages' = Append(messages,
                    [role |-> "assistant", content |-> r.content])
              /\ response' = r
              /\ tool_results' = << >>
              /\ blockIdx' = 1
              /\ ccPc' = "dispatch"
              /\ UNCHANGED ccResult
    ELSE /\ ccPc' = "returned"
         /\ ccResult' = Returned(r)
         /\ UNCHANGED <<messages, response, blockIdx, tool_results>>

\* a tool-requesting response that holds no tool_use block taken as final
HandleResponseReturnsEmpty(r) ==
    IF IsToolUse(r) /\ CountToolUse(r.content) > 0
    THEN IF executor = None
         THEN /\ ccPc' = "raised"
              /\ ccResult' = Raised("ValueError",
                    <<"Tool use requested but no tool_executor provided">>)
              /\ UNCHANGED <<messages, response, blockIdx, tool_results>>
         ELSE /\ messages' = Append(messages,
                    [role |-> "assistant", content |-> r.content])
              /\ response' = r
              /\ tool_results' = << >>
              /\ blockIdx' = 1
              /\ ccPc' = "dispatch"
              /\ UNCHANGED ccResult
    ELSE /\ ccPc' = "returned"
         /\ ccResult' = Returned(r)
         /\ UNCHANGED <<messages, response, blockIdx, tool_results>>

\* lines 84-89 and 122-123: what call_claude does with a response
HandleResponse(r) ==
    IF IsToolUse(r)
    THEN IF executor = None
         THEN /\ ccPc' = "raised"
              /\ ccResult' = Raised("ValueError",
                    <<"Tool use requested but no tool_executor provided">>)
              /\ UNCHANGED <<messages, response, blockIdx, tool_results>>
         ELSE /\ messages' = Append(messages,
                    [role |-> "assistant", content |-> r.content])
              /\ response' = r
              /\ tool_results' = << >>
              /\ blockIdx' = 1
              /\ ccPc' = "dispatch"
              /\ UNCHANGED ccResult
    ELSE /\ ccPc' = "returned"
         /\ ccResult' = Returned(r)
         /\ UNCHANGED <<messages, response, blockIdx, tool_results>>

\* lines 80-81: a request the model service answers
CreateRequest ==
    /\ UNCHANGED <<parseVars, earlier, mainVars>>
    /\ ccPc = "request"
    /\ requests' = Append(requests, [messages |-> messages, tools |-> tools])
    /\ \E r \in ModelResponses(agent, agArg,
                                RoundsBefore + ToolRounds(responses),
                                UsesBefore + ToolUsesIn(responses)) :
         /\ responses' = Append(responses, r)
         /\ HandleResponse(r)
    /\ UNCHANGED <<entry, tools, executor, dispatchLog, serviceError,
                   agVars, wfVars>>

\* the failures of the model service (subclasses of anthropic.APIError)
ServiceErrors ==
    { Raised("APIError", <<"API Error">>),
      Raised("RateLimitError", <<"rate limit exceeded">>) }

\* a failed request that is issued again instead of leaving call_claude
CreateFailsRetried ==
    /\ UNCHANGED <<parseVars, earlier, mainVars>>
    /\ ccPc = "request"
    /\ requests' = Append(requests, [messages |-> messages, tools |-> tools])
    /\ \E e \in ServiceErrors : serviceError' = e
    /\ UNCHANGED <<entry, ccPc, ccResult, messages, tools, executor, response,
                   blockIdx, tool_results, responses, dispatchLog, agVars, wfVars>>

\* lines 80-81: a request on which the model service fails; call_claude has
\* no handler, the exception leaves it
CreateFails ==
    /\ UNCHANGED <<parseVars, earlier, mainVars>>
    /\ ccPc = "request"
    /\ requests' = Append(requests, [messages |-> messages, tools |-> tools])
    /\ \E e \in ServiceErrors :
         /\ serviceError' = e
         /\ ccResult' = e
    /\ ccPc' = "raised"
    /\ UNCHANGED <<entry, messages, tools, executor, response, blockIdx,
                   tool_results, responses, dispatchLog, agVars, wfVars>>

\* the for loop left at the first tool execution that fails
DispatchBlockStopsOnFailure ==
    /\ UNCHANGED <<parseVars, earlier, mainVars>>
    /\ ccPc = "dispatch"
    /\ blockIdx <= Len(response.content)
    /\ LET block == response.content[blockIdx] IN
         IF block.type = "tool_use"
         THEN \E outcome \in ExecutorOutcomes(executor, block.name, block.input) :
                /\ dispatchLog' = Append(dispatchLog,
                      [name |-> block.name, input |-> block.input,
                       id |-> block.id, round |-> Len(responses),
                       outcome |-> outcome])
                /\ tool_results' = Append(tool_results,
                      ToolResultFor(block, outcome))
                /\ blockIdx' = IF outcome.kind = "raise"
                               THEN Len(response.content) + 1
                               ELSE blockIdx + 1
         ELSE /\ UNCHANGED <<dispatchLog, tool_results>>
              /\ blockIdx' = blockIdx + 1
    /\ UNCHANGED <<entry, ccPc, messages, tools, executor, response, ccResult,
                   requests, responses, serviceError, agVars, wfVars>>

\* lines 93-114: one iteration of the for loop over response.content
DispatchBlock ==
    /\ UNCHANGED <<parseVars, earlier, mainVars>>
    /\ ccPc = "dispatch"
    /\ blockIdx <= Len(response.content)
    /\ LET block == response.content[blockIdx] IN
         IF block.type = "tool_use"
         THEN \E outcome \in ExecutorOutcomes(executor, block.name, block.input) :
                /\ dispatchLog' = Append(dispatchLog,
                      [name |-> block.name, input |-> block.input,
                       id |-> block.id, round |-> Len(responses),
                       outcome |-> outcome])
                /\ tool_results' = Append(tool_results,
                      ToolResultFor(block, outcome))
         ELSE UNCHANGED <<dispatchLog, tool_results>>
    /\ blockIdx' = blockIdx + 1
    /\ UNCHANGED <<entry, ccPc, messages, tools, executor, response, ccResult,
                   requests, responses, serviceError, agVars, wfVars>>

\* the results written over the assistant turn instead of after it
FinishRoundReplacesTurn ==
    /\ UNCHANGED <<parseVars, earlier, mainVars>>
    /\ ccPc = "dispatch"
    /\ blockIdx > Len(response.content)
    /\ messages' = [messages EXCEPT ![Len(messages)] =
                        [role |-> "user", content |-> tool_results]]
    /\ ccPc' = "request"
    /\ UNCHANGED <<entry, tools, executor, response, blockIdx, tool_results,
                   ccResult, requests, responses, dispatchLog, serviceError,
                   agVars, wfVars>>

\* lines 116-120: the results of this response become one user turn
FinishRound ==
    /\ UNCHANGED <<parseVars, earlier, mainVars>>
    /\ ccPc = "dispatch"
    /\ blockIdx > Len(response.content)
    /\ messages' = Append(messages, [role |-> "user", content |-> tool_results])
    /\ ccPc' = "request"
    /\ UNCHANGED <<entry, tools, executor, response, blockIdx, tool_results,
                   ccResult, requests, responses, dispatchLog, serviceError,
                   agVars, wfVars>>

----------------------------------------------------------------------------
(* Parsing of the final answer *)

\* BaseAgent.parse_response: the text of the first content block
parse_response(message) ==
    IF message.content = << >>
    THEN Raised("ValueError", <<"Message has no content">>)
    ELSE IF "text" \in DOMAIN message.content[1]
         THEN Returned(message.content[1].text)
         ELSE Raised("ValueError", <<"Unexpected content block type">>)

\* the fence stripping of coordinate and research: the text between the first
\* two ``` markers without a leading 'json', or the stripped text
StripMarkdown(text) ==
    IF text.fence = "JSON"
    THEN [raw |-> "JSON-tagged block"]
    ELSE text.body

\* json.loads
JsonLoads(body) ==
    IF "json" \in DOMAIN body
    THEN Returned(body.json)
    ELSE Raised("JSONDecodeError", <<"Expecting value">>)

\* json_utils.extract_json_from_response: the first fenced block, or else the
\* raw text, that starts with a brace or a bracket
extract_json_from_response(text) ==
    IF "json" \in DOMAIN text.body /\ text.body.json.t \in {"list", "dict"}
    THEN Returned(text.body)
    ELSE Raised("ValueError", <<"Could not find valid JSON structure in response">>)

\* key in value, for a dict or a list of dicts
HasKey(value, key) == value.t = "dict" /\ key \in DOMAIN value.v

\* json_utils.parse_json_response
parse_json_response(text, expected_fields) ==
    LET ex == extract_json_from_response(text) IN
    IF ex.kind = "raise" THEN ex
    ELSE LET ld == JsonLoads(ex.value) IN
         IF ld.kind = "raise"
         THEN Raised("ValueError", <<"Failed to parse response as JSON">>)
         ELSE IF \E f \in expected_fields : ~HasKey(ld.value, f)
              THEN Raised("ValueError", <<"Response missing required fields">>)
              ELSE ld

----------------------------------------------------------------------------
(* The role agents: what each method does once call_claude has ended *)

\* CoordinatorAgent.coordinate
CoordinateOutcome(cc) ==
    IF cc.kind = "raise"
    THEN Raised("RuntimeError", <<"Coordination failed: ", cc.exc>>)
    ELSE LET pr == parse_response(cc.value) IN
    IF pr.kind = "raise"
    THEN Raised("RuntimeError", <<"Coordination failed: ", pr.exc>>)
    ELSE LET ld == JsonLoads(StripMarkdown(pr.value)) IN
    IF ld.kind = "raise"
    THEN Raised("ValueError", <<"Failed to parse response as JSON">>)
    ELSE IF ld.value.t # "list"
    THEN Raised("ValueError", <<"Expected list of subtasks">>)
    ELSE IF Len(ld.value.v) < 2 \/ Len(ld.value.v) > 4
    THEN Raised("ValueError", <<"Expected 2-4 subtasks">>)
    ELSE IF \E i \in 1..Len(ld.value.v) : ld.value.v[i].t # "str"
    THEN Raised("ValueError", <<"All subtasks must be strings">>)
    ELSE Returned(ld.value)

\* ResearcherAgent.research
ResearchOutcome(cc) ==
    IF cc.kind = "raise"
    THEN Raised("RuntimeError", <<"Research failed: ", cc.exc>>)
    ELSE LET pr == parse_response(cc.value) IN
    IF pr.kind = "raise"
    THEN Raised("RuntimeError", <<"Research failed: ", pr.exc>>)
    ELSE LET ld == JsonLoads(StripMarkdown(pr.value)) IN
    IF ld.kind = "raise"
    THEN Raised("ValueError", <<"Failed to parse response as JSON">>)
    ELSE IF ~HasKey(ld.value, "subtask")
    THEN Raised("ValueError", <<"Response missing required field: subtask">>)
    ELSE IF ~HasKey(ld.value, "findings")
    THEN Raised("ValueError", <<"Response missing required field: findings">>)
    ELSE IF ld.value.v.findings.t # "list"
    THEN Raised("ValueError", <<"findings must be a list">>)
    ELSE Returned(ld.value)

\* SynthesizerAgent.synthesize
SynthesizeOutcome(cc) ==
    IF cc.kind = "raise"
    THEN Raised("RuntimeError", <<"Synthesis failed: ", cc.exc>>)
    ELSE LET pr == parse_response(cc.value) IN
    IF pr.kind = "raise"
    THEN Raised("RuntimeError", <<"Synthesis failed: ", pr.exc>>)
    ELSE LET pj == parse_json_response(pr.value,
                     {"summary", "sections", "key_insights"}) IN
    IF pj.kind = "raise"
    THEN Raised("RuntimeError", <<"Synthesis failed: ", pj.exc>>)
    ELSE IF pj.value.v.sections.t # "list"
    THEN Raised("ValueError", <<"sections must be a list">>)
    ELSE IF pj.value.v.key_insights.t # "list"
    THEN Raised("ValueError", <<"key_insights must be a list">>)
    ELSE Returned(pj.value)

\* CriticAgent.review
ReviewOutcome(cc) ==
    IF cc.kind = "raise"
    THEN Raised("RuntimeError", <<"Critic review failed: ", cc.exc>>)
    ELSE LET pr == parse_response(cc.value) IN
    IF pr.kind = "raise"
    THEN Raised("RuntimeError", <<"Critic review failed: ", pr.exc>>)
    ELSE LET pj == parse_json_response(pr.value,
                     {"overall_quality", "issues", "suggestions",
                      "needs_more_research"}) IN
    IF pj.kind = "raise"
    THEN Raised("RuntimeError", <<"Critic review failed: ", pj.exc>>)
    ELSE IF pj.value.v.issues.t # "list"
    THEN Raised("ValueError", <<"issues must be a list">>)
    ELSE IF pj.value.v.suggestions.t # "list"
    THEN Raised("ValueError", <<"suggestions must be a list">>)
    ELSE IF pj.value.v.needs_more_research.t # "bool"
    THEN Raised("ValueError", <<"needs_more_research must be a boolean">>)
    ELSE Returned(pj.value)

AgentOutcome(a, cc) ==
    CASE a = "coordinator" -> CoordinateOutcome(cc)
      [] a = "researcher" -> ResearchOutcome(cc)
      [] a = "synthesizer" -> SynthesizeOutcome(cc)
      [] a = "critic" -> ReviewOutcome(cc)

\* the keyword parameters each agent method declares besides its argument
research_params == { "tools" }
KeywordParams(a) == IF a = "researcher" THEN research_params ELSE {}

\* Python binds a call only if the method declares every keyword passed
Binds(a, kwargs) == kwargs \subseteq KeywordParams(a)

\* the user message each agent sends to call_claude
UserMessage(a, arg) ==
    CASE a = "synthesizer" ->
           [prefix |-> "Here are the research findings to synthesize:",
            body |-> JsonDumps(arg)]
      [] a = "critic" ->
           [prefix |-> "Here is the research report to review:",
            body |-> JsonDumps(arg)]
      [] OTHER -> arg

\* the agent method is entered and calls call_claude: only the Researcher
\* passes tools on, and no agent passes a tool_executor
InvokeAgent(a, arg, kwargs) ==
    /\ agent' = a
    /\ agArg' = arg
    /\ agKwargs' = kwargs
    /\ agResult' = NoValue
    /\ agPc' = "calling"
    /\ BeginCall(UserMessage(a, arg), a = "researcher" /\ "tools" \in kwargs, None)

\* the agent method after call_claude returned or raised
AgentReturn ==
    /\ UNCHANGED <<parseVars, earlier, mainVars>>
    /\ agPc = "calling"
    /\ ccPc \in {"returned", "raised"}
    /\ agResult' = AgentOutcome(agent, ccResult)
    /\ agPc' = IF agResult'.kind = "return" THEN "returned" ELSE "raised"
    /\ UNCHANGED <<entry, ccVars, agent, agKwargs, agArg, wfVars>>

----------------------------------------------------------------------------
(* agents.models: the validation WorkflowResult(...) performs *)

NonEmptyStr(x) == x.t = "str" /\ x.v # ""

IsStr(x) == x.t = "str"

\* list[str]
ListOfStr(list) == list.t = "list" /\ \A i \in 1..Len(list.v) : IsStr(list.v[i])

\* Finding
ValidFinding(x) ==
    /\ x.t = "dict"
    /\ \A k \in {"claim", "source", "details"} : HasKey(x, k) /\ NonEmptyStr(x.v[k])

\* list[Finding]
ListOfFindings(list) ==
    list.t = "list" /\ \A i \in 1..Len(list.v) : ValidFinding(list.v[i])

\* ResearchResult: findings defaults to an empty list when absent, and the
\* at-least-one validator runs on a given list only
ValidResearchResult(x) ==
    /\ x.t = "dict"
    /\ HasKey(x, "subtask") /\ NonEmptyStr(x.v.subtask)
    /\ HasKey(x, "findings") =>
         /\ ListOfFindings(x.v.findings)
         /\ Len(x.v.findings.v) > 0

\* SynthesisSection
ValidSection(x) ==
    /\ x.t = "dict"
    /\ \A k \in {"title", "content"} : HasKey(x, k) /\ NonEmptyStr(x.v[k])
    /\ HasKey(x, "sources") => ListOfStr(x.v.sources)

\* list[SynthesisSection]
ListOfSections(list) ==
    list.t = "list" /\ \A i \in 1..Len(list.v) : ValidSection(list.v[i])

\* SynthesizedReport
ValidReport(x) ==
    /\ x.t = "dict"
    /\ HasKey(x, "summary") /\ NonEmptyStr(x.v.summary)
    /\ HasKey(x, "sections")
    /\ ListOfSections(x.v.sections)
    /\ Len(x.v.sections.v) >= 1
    /\ HasKey(x, "key_insights") => ListOfStr(x.v.key_insights)

\* CriticIssue
ValidIssue(x) ==
    /\ x.t = "dict"
    /\ \A k \in {"type", "description", "location"} :
         HasKey(x, k) /\ NonEmptyStr(x.v[k])
    /\ HasKey(x, "severity") /\ IsStr(x.v.severity)

\* list[CriticIssue]
ListOfIssues(list) ==
    list.t = "list" /\ \A i \in 1..Len(list.v) : ValidIssue(list.v[i])

\* CriticReview
ValidReview(x) ==
    /\ x.t = "dict"
    /\ HasKey(x, "overall_quality") /\ NonEmptyStr(x.v.overall_quality)
    /\ HasKey(x, "issues") => ListOfIssues(x.v.issues)
    /\ HasKey(x, "suggestions") => ListOfStr(x.v.suggestions)
    /\ HasKey(x, "needs_more_research") /\ x.v.needs_more_research.t = "bool"

\* WorkflowResult(query=..., subtasks=..., research_results=..., ...)
WorkflowResult(query, subs, rr, syn, cri) ==
    IF /\ query # ""
       /\ ListOfStr(subs)
       /\ \A i \in 1..Len(rr) : ValidResearchResult(rr[i])
       /\ ValidReport(syn)
       /\ ValidReview(cri)
    THEN Returned([query |-> query, subtasks |-> subs, research_results |-> rr,
                   synthesis |-> syn, critique |-> cri])
    ELSE Raised("ValidationError", <<"validation errors for WorkflowResult">>)

----------------------------------------------------------------------------
(* orchestration.workflow.run_research_workflow *)

Query == "Test query"

\* the keywords of the workflow's call researcher.research(subtask, tools=...,
\* tool_executor=...)
ResearchCallKwargs == { "tools", "tool_executor" }

StageOf(a) ==
    CASE a = "coordinator" -> "coordinating"
      [] a = "researcher" -> "researching"
      [] a = "synthesizer" -> "synthesizing"
      [] a = "critic" -> "critiquing"

\* the synthesis placed before the research loop
StageAfterSynthesisFirst(stage, i, n) ==
    CASE stage = "coordinating" -> "synthesizing"
      [] stage = "researching" -> IF i < n THEN "researching" ELSE "synthesizing"
      [] stage = "synthesizing" -> "critiquing"
      [] stage = "critiquing" -> "done"

\* the statement order of the workflow: the stage that follows stage, where
\* i of the n subtasks have been researched
StageAfter(stage, i, n) ==
    CASE stage = "coordinating" -> "researching"
      [] stage = "researching" -> IF i < n THEN "researching" ELSE "synthesizing"
      [] stage = "synthesizing" -> "critiquing"
      [] stage = "critiquing" -> "done"

\* an agent call made by the workflow: a call Python cannot bind raises
\* TypeError in the workflow, which catches nothing
WfInvoke(a, arg, kwargs) ==
    /\ wfCalls' = Append(wfCalls, [agent |-> a, arg |-> arg])
    /\ IF Binds(a, kwargs)
       THEN /\ InvokeAgent(a, arg, kwargs)
            /\ wfPc' = StageOf(a)
            /\ UNCHANGED wfResult
       ELSE /\ wfPc' = "raised"
            /\ wfResult' = Raised("TypeError",
                  <<"got an unexpected keyword argument">>)
            /\ UNCHANGED <<ccVars, agVars>>

\* the failure handed to the caller in place of the agent's failure: a result
\* built from what the run has so far
PropagateFailureSwallowed ==
    /\ wfPc' = "done"
    /\ wfResult' = Returned([query |-> Query, subtasks |-> subtasks,
                             research_results |-> research_results,
                             synthesis |-> synthesis, critique |-> critique])
    /\ UNCHANGED <<ccVars, agVars, subtasks, research_results, resIdx,
                   synthesis, critique, wfCalls>>

\* lines 68-101 hold no try: an exception of an agent call leaves the
\* workflow at once, as the workflow's own
PropagateFailure ==
    /\ wfPc' = "raised"
    /\ wfResult' = agResult
    /\ UNCHANGED <<ccVars, agVars, subtasks, research_results, resIdx,
                   synthesis, critique, wfCalls>>

\* lines 68-70: the workflow starts with the Coordinator
WorkflowStart ==
    /\ UNCHANGED <<parseVars, earlier, mainVars>>
    /\ entry = "none"
    /\ entry' = "workflow"
    /\ WfInvoke("coordinator", Query, {})
    /\ UNCHANGED <<subtasks, research_results, resIdx, synthesis, critique>>

\* lines 70-101: the workflow after the agent call of its stage has ended
WorkflowStep ==
    /\ UNCHANGED <<parseVars, earlier, mainVars>>
    /\ entry \in {"workflow", "main"}
    /\ wfPc \in {"coordinating", "researching", "synthesizing", "critiquing"}
    /\ agPc \in {"returned", "raised"}
    /\ UNCHANGED entry
    /\ IF agPc = "raised"
       THEN PropagateFailure
       ELSE LET v == agResult.value
                subs == IF wfPc = "coordinating" THEN v ELSE subtasks
                rr == IF wfPc = "researching"
                      THEN Append(research_results, v) ELSE research_results
                syn == IF wfPc = "synthesizing" THEN v ELSE synthesis
                cri == IF wfPc = "critiquing" THEN v ELSE critique
                idx == IF wfPc = "researching" THEN resIdx + 1 ELSE 1
                next == StageAfter(wfPc, resIdx, Len(subs.v))
            IN  /\ subtasks' = subs
                /\ research_results' = rr
                /\ synthesis' = syn
                /\ critique' = cri
                /\ CASE next = "researching" ->
                          /\ resIdx' = idx
                          /\ WfInvoke("researcher", subs.v[idx].v, ResearchCallKwargs)
                     [] next = "synthesizing" ->
                          /\ UNCHANGED resIdx
                          /\ WfInvoke("synthesizer", JList(rr), {})
                     [] next = "critiquing" ->
                          /\ UNCHANGED resIdx
                          /\ WfInvoke("critic", syn, {})
                     [] next = "done" ->
                          /\ wfResult' = WorkflowResult(Query, subs, rr, syn, cri)
                          /\ wfPc' = IF wfResult'.kind = "return"
                                     THEN "done" ELSE "raised"
                          /\ UNCHANGED <<resIdx, wfCalls, ccVars, agVars>>

----------------------------------------------------------------------------
(* The caller: one public operation is invoked *)

\* the (tools, tool_executor) arguments call_claude is called with
CallArguments ==
    { <<FALSE, None>>, <<TRUE, None>>, <<TRUE, "mock">>, <<TRUE, "workflow">> }

\* the user message of the n-th call
CallMessage(n) ==
    IF n = 1 THEN "Test message" ELSE "Test message " \o ToString(n)

\* BaseAgent.call_claude called directly
CallClaude ==
    /\ UNCHANGED <<parseVars, earlier, mainVars>>
    /\ entry = "none"
    /\ entry' = "call_claude"
    /\ \E a \in CallArguments : BeginCall(CallMessage(1), a[1], a[2])
    /\ UNCHANGED <<agVars, wfVars>>

\* BaseAgent.call_claude called again on the same agent, the call before
\* having returned or raised after at least one tool round (the model
\* service gives MaxRounds of them to one caller, which bounds the calls),
\* with another user message and the same tools and tool_executor
CallClaudeAgain ==
    /\ UNCHANGED <<parseVars, mainVars>>
    /\ entry = "call_claude"
    /\ ccPc \in {"returned", "raised"}
    /\ IdsOfTurns(messages) # {}
    /\ earlier' = Append(earlier,
          [ids |-> IdsOfTurns(messages),
           rounds |-> RoundsBefore + ToolRounds(responses),
           tool_uses |-> UsesBefore + ToolUsesIn(responses)])
    /\ BeginCall(CallMessage(Len(earlier) + 2), tools, executor)
    /\ UNCHANGED <<entry, agVars, wfVars>>

\* the agent methods called directly, with the keywords a caller may pass
AgentCalls ==
    { [agent |-> "coordinator", arg |-> Query, kwargs |-> {}],
      [agent |-> "researcher", arg |-> "s1", kwargs |-> {}],
      [agent |-> "researcher", arg |-> "s1", kwargs |-> {"tools"}],
      [agent |-> "researcher", arg |-> "s1", kwargs |-> ResearchCallKwargs],
      [agent |-> "synthesizer",
       arg |-> JList(<<ResearchDict("s1", JList(<<Finding>>))>>), kwargs |-> {}],
      [agent |-> "critic", arg |-> ReportDict(JList(<<Section>>)), kwargs |-> {}] }

\* coordinate, research, synthesize or review called directly
AgentCall ==
    /\ UNCHANGED <<parseVars, earlier, mainVars>>
    /\ entry = "none"
    /\ \E c \in AgentCalls :
         /\ entry' = c.agent
         /\ IF Binds(c.agent, c.kwargs)
            THEN InvokeAgent(c.agent, c.arg, c.kwargs)
            ELSE /\ agent' = c.agent
                 /\ agArg' = c.arg
                 /\ agKwargs' = c.kwargs
                 /\ agPc' = "raised"
                 /\ agResult' = Raised("TypeError",
                       <<"got an unexpected keyword argument">>)
                 /\ UNCHANGED ccVars
    /\ UNCHANGED wfVars

----------------------------------------------------------------------------
(* main *)

\* what main may find: no query on the command line, no ANTHROPIC_API_KEY
\* (get_api_key raises ValueError), no prompts file (load_prompts raises
\* FileNotFoundError), or all it needs
Configurations == { "no_query", "no_api_key", "no_prompts", "ok" }

\* the exception classes that are ValueError or derive from it
\* (pydantic's ValidationError does)
ValueErrors == { "ValueError", "ValidationError" }

\* lines 221-229: the except clauses of main, tried in order
ReportOf(exc) ==
    IF exc \in ValueErrors THEN "Configuration Error"
    ELSE IF exc = "RuntimeError" THEN "Runtime Error"
    ELSE "Unexpected Error"

\* lines 47-90: main up to its call of run_research_workflow
Main ==
    /\ UNCHANGED <<parseVars, earlier>>
    /\ entry = "none"
    /\ entry' = "main"
    /\ \E c \in Configurations :
         /\ config' = c
         /\ CASE c = "no_query" ->
                   /\ mainPc' = "exited"
                   /\ exitStatus' = 1
                   /\ reported' = "Usage"
                   /\ UNCHANGED <<ccVars, agVars, wfVars>>
              [] c = "no_api_key" ->
                   /\ mainPc' = "exited"
                   /\ exitStatus' = 1
                   /\ reported' = ReportOf("ValueError")
                   /\ UNCHANGED <<ccVars, agVars, wfVars>>
              [] c = "no_prompts" ->
                   /\ mainPc' = "exited"
                   /\ exitStatus' = 1
                   /\ reported' = ReportOf("FileNotFoundError")
                   /\ UNCHANGED <<ccVars, agVars, wfVars>>
              [] c = "ok" ->
                   /\ mainPc' = "running"
                   /\ WfInvoke("coordinator", Query, {})
                   /\ UNCHANGED <<exitStatus, reported, subtasks,
                                  research_results, resIdx, synthesis, critique>>

\* lines 92-229: main after run_research_workflow returned or raised: the
\* result is printed and main returns, or the failure is reported and the
\* process exits with status 1
MainExit ==
    /\ UNCHANGED <<parseVars, earlier>>
    /\ entry = "main"
    /\ mainPc = "running"
    /\ wfPc \in {"done", "raised"}
    /\ mainPc' = "exited"
    /\ IF wfPc = "done"
       THEN /\ exitStatus' = 0
            /\ UNCHANGED reported
       ELSE /\ exitStatus' = 1
            /\ reported' = ReportOf(wfResult.exc)
    /\ UNCHANGED <<entry, config, ccVars, agVars, wfVars>>

\* no operation of the program has been called yet
ProgramInit ==
    /\ entry = "none"
    /\ ccPc = "idle"
    /\ messages = << >>
    /\ tools = FALSE
    /\ executor = None
    /\ response = NoResponse
    /\ blockIdx = 0
    /\ tool_results = << >>
    /\ ccResult = NoValue
    /\ requests = << >>
    /\ responses = << >>
    /\ dispatchLog = << >>
    /\ serviceError = NoValue
    /\ agPc = "idle"
    /\ agent = "none"
    /\ agKwargs = {}
    /\ agArg = NoValue
    /\ agResult = NoValue
    /\ wfPc = "idle"
    /\ subtasks = NoValue
    /\ research_results = << >>
    /\ resIdx = 0
    /\ synthesis = NoValue
    /\ critique = NoValue
    /\ wfResult = NoValue
    /\ wfCalls = << >>
    /\ earlier = << >>
    /\ mainPc = "idle"
    /\ config = "none"
    /\ exitStatus = NoValue
    /\ reported = "none"

Init ==
    /\ ProgramInit
    /\ pPc = "idle"
    /\ pInput = NoValue
    /\ json_str = NoValue
    /\ cleaned = << >>
    /\ validated = NoValue
    /\ errors = << >>
    /\ attempts = << >>
    /\ fallbackCalls = << >>
    /\ parsed = NoValue

Next ==
    \/ CallClaude
    \/ AgentCall
    \/ WorkflowStart
    \/ Main
    \/ MainExit
    \/ CreateRequest
    \/ CreateFails
    \/ DispatchBlock
    \/ FinishRound
    \/ AgentReturn
    \/ WorkflowStep

Spec == Init /\ [][Next]_vars

\* call_claude called directly, several times one after the other
CallNext ==
    \/ CallClaude
    \/ CallClaudeAgain
    \/ CreateRequest
    \/ CreateFails
    \/ DispatchBlock
    \/ FinishRound

\* call_claude is sequential code: a statement that can run does run, and
\* client.messages.create answers or fails
CallSpec ==
    /\ Init
    /\ [][CallNext]_vars
    /\ WF_vars(CreateRequest \/ CreateFails)
    /\ WF_vars(DispatchBlock)
    /\ WF_vars(FinishRound)

----------------------------------------------------------------------------
(* agents.parsing: texts                                                    *)
(* A text is a sequence of tokens. A token is one character, except that    *)
(* the three backticks of a fence and the words json, JSON and python are   *)
(* one token each; no pattern of the module matches across these.           *)

\* the token that stands for the three backticks
Fence == "FENCE"
Whitespace == { " ", "\n" }
IsSpace(c) == c \in Whitespace

\* str.lstrip, str.rstrip, str.strip
RECURSIVE LStrip(_)
LStrip(s) == IF s # << >> /\ IsSpace(Head(s)) THEN LStrip(Tail(s)) ELSE s

RECURSIVE RStrip(_)
RStrip(s) ==
    IF s # << >> /\ IsSpace(s[Len(s)])
    THEN RStrip(SubSeq(s, 1, Len(s) - 1))
    ELSE s

Strip(s) == RStrip(LStrip(s))

\* the places of token c in s at or after from
Positions(s, c, from) == { i \in from..Len(s) : s[i] = c }

Least(S) == CHOOSE x \in S : \A y \in S : x <= y
Greatest(S) == CHOOSE x \in S : \A y \in S : x >= y

\* \s* taken greedily at place i: the place after the run of whitespace
RECURSIVE SkipSpace(_, _)
SkipSpace(s, i) ==
    IF i <= Len(s) /\ IsSpace(s[i]) THEN SkipSpace(s, i + 1) ELSE i

\* the outcome of re.search
NoMatch == [found |-> FALSE]
Match(group) == [found |-> TRUE, group |-> group]

\* (.*?)\s*``` from place p on, a fence being at or after p: the group grows
\* one token at a time until whitespace and a fence follow it
LazyGroupToFence(s, p) ==
    LET f == Least(Positions(s, Fence, p))
        q == Least({ k \in p..f : \A j \in k..(f - 1) : IsSpace(s[j]) })
    IN  SubSeq(s, p, q - 1)

\* re.search(r"```json\s*(.*?)\s*```", text, re.DOTALL)
SearchJsonBlock(text) ==
    LET starts == { i \in 1..(Len(text) - 1) :
                      /\ text[i] = Fence
                      /\ text[i + 1] = "json"
                      /\ Positions(text, Fence, i + 2) # {} }
    IN  IF starts = {} THEN NoMatch
        ELSE Match(LazyGroupToFence(text, SkipSpace(text, Least(starts) + 2)))

\* re.search(r"```\s*(.*?)\s*```", text, re.DOTALL)
SearchCodeBlock(text) ==
    LET starts == { i \in 1..Len(text) :
                      /\ text[i] = Fence
                      /\ Positions(text, Fence, i + 1) # {} }
    IN  IF starts = {} THEN NoMatch
        ELSE Match(LazyGroupToFence(text, SkipSpace(text, Least(starts) + 1)))

\* the closer of an opening brace or bracket
Closer(c) == IF c = "{" THEN "}" ELSE "]"

\* re.search(r"(\{.*\}|\[.*\])", text, re.DOTALL): from the leftmost opener
\* that has its closer after it, greedily to the last such closer
SearchJsonValue(text) ==
    LET starts == { i \in 1..Len(text) :
                      /\ text[i] \in {"{", "["}
                      /\ Positions(text, Closer(text[i]), i + 1) # {} }
    IN  IF starts = {} THEN NoMatch
        ELSE LET i == Least(starts)
                 j == Greatest(Positions(text, Closer(text[i]), i + 1))
             IN  Match(SubSeq(text, i, j))

\* the last step returns the text as it is
extract_json_from_text_unstripped(text) ==
    LET json_block == SearchJsonBlock(text)
        code_block == SearchCodeBlock(text)
        json_value == SearchJsonValue(text)
    IN  IF json_block.found THEN Returned(Strip(json_block.group))
        ELSE IF code_block.found THEN Returned(Strip(code_block.group))
        ELSE IF json_value.found THEN Returned(Strip(json_value.group))
        ELSE Returned(text)

\* parsing.extract_json_from_text
extract_json_from_text(text) ==
    LET json_block == SearchJsonBlock(text)
        code_block == SearchCodeBlock(text)
        json_value == SearchJsonValue(text)
    IN  IF json_block.found THEN Returned(Strip(json_block.group))
        ELSE IF code_block.found THEN Returned(Strip(code_block.group))
        ELSE IF json_value.found THEN Returned(Strip(json_value.group))
        ELSE Returned(Strip(text))

\* the place of the closer that follows the comma at place i after
\* whitespace only, 0 if there is none
CloserAfterComma(s, i) ==
    LET j == SkipSpace(s, i + 1) IN
    IF s[i] = "," /\ j <= Len(s) /\ s[j] \in {"}", "]"} THEN j ELSE 0

\* re.sub(r",(\s*[}\]])", r"\1", s): the leftmost comma that whitespace and
\* a closer follow is dropped, and the scan goes on after that closer
RECURSIVE RemoveTrailingCommas(_)
RemoveTrailingCommas(s) ==
    LET hits == { i \in 1..Len(s) : CloserAfterComma(s, i) > 0 } IN
    IF hits = {} THEN s
    ELSE LET i == Least(hits)
             j == CloserAfterComma(s, i)
         IN  SubSeq(s, 1, i - 1) \o SubSeq(s, i + 1, j)
             \o RemoveTrailingCommas(SubSeq(s, j + 1, Len(s)))

\* re.sub(r"//.*?\n", "\n", s): from the leftmost two slashes that a
\* newline follows to the first newline after them, and on from there;
\* without a newline nothing matches
RECURSIVE RemoveLineComments(_)
RemoveLineComments(s) ==
    LET hits == { i \in 1..(Len(s) - 1) :
                    /\ s[i] = "/" /\ s[i + 1] = "/"
                    /\ Positions(s, "\n", i + 2) # {} } IN
    IF hits = {} THEN s
    ELSE LET i == Least(hits)
             nl == Least(Positions(s, "\n", i + 2))
         IN  SubSeq(s, 1, i - 1) \o <<"\n">>
             \o RemoveLineComments(SubSeq(s, nl + 1, Len(s)))

\* the places at or after from where a star-slash starts
CommentEnds(s, from) ==
    { k \in from..(Len(s) - 1) : s[k] = "*" /\ s[k + 1] = "/" }

\* re.sub(r"/\*.*?\*/", "", s, flags=re.DOTALL): from the leftmost
\* slash-star that a star-slash follows to the first star-slash that starts
\* after it, and on from there
RECURSIVE RemoveBlockComments(_)
RemoveBlockComments(s) ==
    LET hits == { i \in 1..(Len(s) - 1) :
                    /\ s[i] = "/" /\ s[i + 1] = "*"
                    /\ CommentEnds(s, i + 2) # {} } IN
    IF hits = {} THEN s
    ELSE LET i == Least(hits)
             k == Least(CommentEnds(s, i + 2))
         IN  SubSeq(s, 1, i - 1)
             \o RemoveBlockComments(SubSeq(s, k + 2, Len(s)))

\* parsing.clean_json_string
clean_json_string(json) ==
    RemoveBlockComments(RemoveLineComments(RemoveTrailingCommas(json)))

----------------------------------------------------------------------------
(* JSON texts: json.loads, and the serialization of a value                 *)
(* In a JSON text every token is one character.                             *)

Quote == "\""
Backslash == "\\"

\* the outcome of reading one value: none, or the value and the place after
Failed == [ok |-> FALSE]
Parsed(value, next) == [ok |-> TRUE, value |-> value, next |-> next]

\* what a backslash and the character c after it stand for
Unescaped(c) ==
    CASE c = "n" -> "\n"
      [] c = "/" -> "/"
      [] c = Quote -> Quote
      [] c = Backslash -> Backslash
      [] OTHER -> ""

\* a string from place i, the place after its opening mark: up to the
\* closing mark; a raw newline, a wrong escape or the end of the text
\* before the closing mark is an error
RECURSIVE ScanString(_, _, _)
ScanString(s, i, acc) ==
    IF i > Len(s) THEN Failed
    ELSE IF s[i] = Quote THEN Parsed(JStr(acc), i + 1)
    ELSE IF s[i] = "\n" THEN Failed
    ELSE IF s[i] = Backslash
         THEN IF i < Len(s) /\ Unescaped(s[i + 1]) # ""
              THEN ScanString(s, i + 2, acc \o Unescaped(s[i + 1]))
              ELSE Failed
    ELSE ScanString(s, i + 1, acc \o s[i])

\* a value at or after place i: a string, an object or an array (the texts
\* of the model hold no number and no literal)
RECURSIVE ParseValue(_, _)
RECURSIVE ParseMembers(_, _, _)
RECURSIVE ParseElements(_, _, _)
ParseValue(s, i) ==
    LET p == SkipSpace(s, i) IN
    IF p > Len(s) THEN Failed
    ELSE IF s[p] = Quote THEN ScanString(s, p + 1, "")
    ELSE IF s[p] = "{"
         THEN LET q == SkipSpace(s, p + 1) IN
              IF q <= Len(s) /\ s[q] = "}"
              THEN Parsed(JDict(<< >>), q + 1)
              ELSE ParseMembers(s, q, << >>)
    ELSE IF s[p] = "["
         THEN LET q == SkipSpace(s, p + 1) IN
              IF q <= Len(s) /\ s[q] = "]"
              THEN Parsed(JList(<< >>), q + 1)
              ELSE ParseElements(s, q, << >>)
    ELSE Failed

\* the members of an object from place i on, acc holding those before; a
\* key given twice keeps its last value
ParseMembers(s, i, acc) ==
    LET p == SkipSpace(s, i) IN
    IF p > Len(s) \/ s[p] # Quote THEN Failed
    ELSE LET key == ScanString(s, p + 1, "") IN
         IF ~key.ok THEN Failed
         ELSE LET c == SkipSpace(s, key.next) IN
              IF c > Len(s) \/ s[c] # ":" THEN Failed
              ELSE LET val == ParseValue(s, c + 1) IN
                   IF ~val.ok THEN Failed
                   ELSE LET e == SkipSpace(s, val.next)
                            members == (key.value.v :> val.value) @@ acc
                        IN  IF e > Len(s) THEN Failed
                            ELSE IF s[e] = "}" THEN Parsed(JDict(members), e + 1)
                            ELSE IF s[e] = ","
                                 THEN ParseMembers(s, e + 1, members)
                            ELSE Failed

\* the elements of an array from place i on, acc holding those before
ParseElements(s, i, acc) ==
    LET val == ParseValue(s, i) IN
    IF ~val.ok THEN Failed
    ELSE LET e == SkipSpace(s, val.next)
             elements == Append(acc, val.value)
         IN  IF e > Len(s) THEN Failed
             ELSE IF s[e] = "]" THEN Parsed(JList(elements), e + 1)
             ELSE IF s[e] = "," THEN ParseElements(s, e + 1, elements)
             ELSE Failed

\* json.loads(s): one value with nothing but whitespace around it
json_loads(s) ==
    LET r == ParseValue(s, 1) IN
    IF r.ok /\ SkipSpace(s, r.next) > Len(s)
    THEN Returned(r.value)
    ELSE Raised("JSONDecodeError", <<"Expecting value">>)

\* a value to serialize: a string given by its characters, a list, or an
\* object given by its members in order
DStr(chars) == [t |-> "str", chars |-> chars]
DList(items) == [t |-> "list", items |-> items]
DDict(members) == [t |-> "dict", members |-> members]
Member(key, value) == [key |-> key, value |-> value]

\* the characters joined into one string
RECURSIVE Join(_)
Join(chars) ==
    IF chars = << >> THEN "" ELSE Head(chars) \o Join(Tail(chars))

\* the value as json.loads gives it
RECURSIVE ValueOf(_)
RECURSIVE MembersOf(_)
ValueOf(d) ==
    CASE d.t = "str" -> JStr(Join(d.chars))
      [] d.t = "list" -> JList([i \in 1..Len(d.items) |-> ValueOf(d.items[i])])
      [] d.t = "dict" -> JDict(MembersOf(d.members))

MembersOf(members) ==
    IF members = << >> THEN << >>
    ELSE LET m == members[Len(members)] IN
         (Join(m.key) :> ValueOf(m.value))
         @@ MembersOf(SubSeq(members, 1, Len(members) - 1))

\* the characters of a string as they are written between the marks: a
\* newline is written as a backslash and an n
RECURSIVE Escaped(_)
Escaped(chars) ==
    IF chars = << >> THEN << >>
    ELSE (IF Head(chars) = "\n" THEN <<Backslash, "n">> ELSE <<Head(chars)>>)
         \o Escaped(Tail(chars))

\* the ways of writing a value: model_dump_json(), json.dumps(v) and
\* json.dumps(v, indent=2)
Styles == { "compact", "spaced", "indent" }

\* the line break and indentation before an item at the given depth
RECURSIVE Spaces(_)
Spaces(n) == IF n = 0 THEN << >> ELSE <<" ">> \o Spaces(n - 1)

LineBreak(style, depth) ==
    IF style = "indent" THEN <<"\n">> \o Spaces(2 * depth) ELSE << >>

ItemSeparator(style, depth) ==
    CASE style = "compact" -> <<",">>
      [] style = "spaced" -> <<",", " ">>
      [] style = "indent" -> <<",">> \o LineBreak(style, depth)

KeySeparator(style) == IF style = "compact" THEN <<":">> ELSE <<":", " ">>

\* the text of a value
RECURSIVE Dump(_, _, _)
RECURSIVE DumpItems(_, _, _)
RECURSIVE DumpMembers(_, _, _)
Dump(d, style, depth) ==
    CASE d.t = "str" -> <<Quote>> \o Escaped(d.chars) \o <<Quote>>
      [] d.t = "list" ->
           IF d.items = << >> THEN <<"[", "]">>
           ELSE <<"[">> \o LineBreak(style, depth + 1)
                \o DumpItems(d.items, style, depth + 1)
                \o LineBreak(style, depth) \o <<"]">>
      [] d.t = "dict" ->
           IF d.members = << >> THEN <<"{", "}">>
           ELSE <<"{">> \o LineBreak(style, depth + 1)
                \o DumpMembers(d.members, style, depth + 1)
                \o LineBreak(style, depth) \o <<"}">>

DumpItems(items, style, depth) ==
    Dump(Head(items), style, depth)
    \o (IF Len(items) = 1 THEN << >>
        ELSE ItemSeparator(style, depth)
             \o DumpItems(Tail(items), style, depth))

DumpMembers(members, style, depth) ==
    <<Quote>> \o Escaped(Head(members).key) \o <<Quote>>
    \o KeySeparator(style) \o Dump(Head(members).value, style, depth)
    \o (IF Len(members) = 1 THEN << >>
        ELSE ItemSeparator(style, depth)
             \o DumpMembers(Tail(members), style, depth))

----------------------------------------------------------------------------
(* agents.models: validation of one payload against ResearchResult *)

\* the at-least-one validator left out
ResearchResultNoMinimum(x) ==
    IF /\ x.t = "dict"
       /\ HasKey(x, "subtask") /\ NonEmptyStr(x.v.subtask)
       /\ HasKey(x, "findings") => ListOfFindings(x.v.findings)
    THEN Returned([subtask |-> x.v.subtask.v,
                   findings |-> IF HasKey(x, "findings")
                                THEN x.v.findings.v ELSE << >>])
    ELSE Raised("ValidationError", <<"validation error for ResearchResult">>)

\* ResearchResult.model_validate(x): the model built, findings defaulting to
\* the empty list, or the validation error
ResearchResult(x) ==
    IF ValidResearchResult(x)
    THEN Returned([subtask |-> x.v.subtask.v,
                   findings |-> IF HasKey(x, "findings")
                                THEN x.v.findings.v ELSE << >>])
    ELSE Raised("ValidationError", <<"validation error for ResearchResult">>)

----------------------------------------------------------------------------
(* parsing.parse_llm_response, model_class being ResearchResult *)

\* model_class.model_validate_json(json_str): a text that is not JSON is a
\* validation error too
model_validate_json(candidate) ==
    LET data == json_loads(candidate) IN
    IF data.kind = "raise"
    THEN Raised("ValidationError", <<"Invalid JSON">>)
    ELSE ResearchResult(data.value)

\* lines 108-109 and 116-117: the candidate of strategies 1 and 2
CandidateOf(response_text) ==
    clean_json_string(extract_json_from_text(response_text).value)

\* lines 108-110
DirectOutcome(response_text) == model_validate_json(CandidateOf(response_text))

\* lines 116-119
DictOutcome(response_text) ==
    LET data == json_loads(CandidateOf(response_text)) IN
    IF data.kind = "raise" THEN data ELSE ResearchResult(data.value)

\* the fallback parsers a caller may supply: none, one that builds a
\* well-formed dict whatever the text, one whose dict lacks the findings it
\* must hold, one that raises
FallbackParsers == { None, "fixed", "partial", "failing" }

fallback_parser(parser, text) ==
    CASE parser = "fixed" ->
           Returned(ResearchDict("s1", JList(<<Finding>>)))
      [] parser = "partial" ->
           Returned(ResearchDict("s1", JList(<< >>)))
      [] parser = "failing" ->
           Raised("KeyError", <<"subtask">>)

\* lines 126-127
FallbackOutcome(parser, text) ==
    LET data == fallback_parser(parser, text) IN
    IF data.kind = "raise" THEN data ELSE ResearchResult(data.value)

\* the number of characters of a token, and of a text
CharLen(token) ==
    CASE token = Fence -> 3
      [] token \in {"json", "JSON"} -> 4
      [] token = "python" -> 6
      [] OTHER -> 1

CharCount(text) ==
    LET n(len) == Cardinality({ i \in 1..Len(text) : CharLen(text[i]) = len })
    IN  n(1) + 3 * n(3) + 4 * n(4) + 6 * n(6)

\* the length of the preview
PreviewLen == 200

\* response_text[:n]: the longest run of leading tokens of at most n
\* characters (no text of the model has a token of several characters
\* across place n)
TakeChars(text, n) ==
    LET fits == { k \in 0..Len(text) : CharCount(SubSeq(text, 1, k)) <= n }
    IN  SubSeq(text, 1, Greatest(fits))

\* the failure with the whole text in its message
ParseFailureWholeText(failures, response_text) ==
    Raised("ValueError", [errors |-> failures, preview |-> response_text])

\* lines 132-136: the failure, with the messages joined and the preview
ParseFailure(failures, response_text) ==
    Raised("ValueError",
           [errors |-> failures,
            preview |-> TakeChars(response_text, PreviewLen)])

----------------------------------------------------------------------------
(* The callers of agents.parsing and agents.models, and their arguments *)

\* most parts of a text
MaxParts == 2
\* most tokens of a candidate string
MaxCandidateLen == 4
\* most successive calls of clean_json_string
MaxCleans == 2
\* most tokens of a string value in a JSON text
MaxStringLen == 2
\* most findings of a payload
MaxFindings == 2

\* a text is made of lines of prose and of fenced blocks, each fence on a
\* line of its own, the opening one with its language tag
Prose(toks) == [kind |-> "prose", toks |-> toks]
Block(tag, inner) == [kind |-> "block", tag |-> tag, inner |-> inner]

Tags == { << >>, <<"json">>, <<"JSON">>, <<"python">> }

\* what a block holds: a list, an object with blank space around it, a word,
\* an object one of whose strings holds three backticks
Inners ==
    { <<"[", "x", "]">>, <<" ", "{", "x", "}", "\n">>, <<"x">>,
      <<"{", Fence, "}">> }

ProseLines ==
    { <<"x", "\n">>, <<" ", "x", " ", "\n">>, <<"\n">>,
      <<"{", "x", "}", "\n">>, <<"[", "x", "]", "\n">>, <<"{", "\n">> }

Parts ==
    { Prose(t) : t \in ProseLines }
    \cup { Block(g, n) : g \in Tags, n \in Inners }

Render(part) ==
    IF part.kind = "prose" THEN part.toks
    ELSE <<Fence>> \o part.tag \o <<"\n">> \o part.inner \o <<"\n", Fence, "\n">>

RECURSIVE RenderAll(_)
RenderAll(doc) ==
    IF doc = << >> THEN << >> ELSE Render(Head(doc)) \o RenderAll(Tail(doc))

Documents == UNION { [1..k -> Parts] : k \in 0..MaxParts }

\* candidate strings: what a JSON document with commas and comments is made of
CandidateTokens == { ",", "}", "/", "*", "\n", "x" }
Candidates == UNION { [1..k -> CandidateTokens] : k \in 1..MaxCandidateLen }

TextInput(doc) == [kind |-> "text", doc |-> doc, text |-> RenderAll(doc)]

\* payloads for ResearchResult: each field absent, well-formed or ill-formed
FindingWith(claim) ==
    JDict([claim |-> claim, source |-> JStr("url"), details |-> JStr("details")])

FindingLists ==
    { JList([i \in 1..k |-> Finding]) : k \in 0..MaxFindings }
    \cup { JList(<<FindingWith(JStr(""))>>),
           JList(<<Finding, FindingWith(JNum(7))>>),
           JList(<<JDict([claim |-> JStr("claim"), source |-> JStr("url")])>>),
           JStr("none found") }

SubtaskValues == { JStr("s1"), JStr(""), JNum(7) }

ResearchPayloads ==
    { JDict([subtask |-> st, findings |-> fs]) :
        st \in SubtaskValues, fs \in FindingLists }
    \cup { JDict([subtask |-> st]) : st \in SubtaskValues }
    \cup { JDict([findings |-> fs]) : fs \in FindingLists }

PayloadInput(value) == [kind |-> "payload", value |-> value]

\* the characters a string value may hold: those of the candidates, and
\* fences
StringContents ==
    UNION { [1..k -> CandidateTokens] : k \in 1..MaxStringLen }
    \cup { <<"/", "*", "x", "*", "/">> }
    \cup { <<Fence>>, <<Fence, "x", Fence>>, <<Fence, "json", "x", Fence>> }

\* valid JSON texts: an object with one string value, in each style
JsonTexts ==
    { Dump(DDict(<<Member(<<"k">>, DStr(c))>>), st, 0) :
        c \in StringContents, st \in Styles }

JsonTextInput(text) == [kind |-> "text", doc |-> <<Prose(text)>>, text |-> text]

\* the field names of ResearchResult and Finding, by their characters
SubtaskKey == <<"s", "u", "b", "t", "a", "s", "k">>
FindingsKey == <<"f", "i", "n", "d", "i", "n", "g", "s">>
ClaimKey == <<"c", "l", "a", "i", "m">>
SourceKey == <<"s", "o", "u", "r", "c", "e">>
DetailsKey == <<"d", "e", "t", "a", "i", "l", "s">>

\* a ResearchResult with one finding, as model_dump gives it
ResearchDoc(subtask, claim, source) ==
    DDict(<<Member(SubtaskKey, DStr(subtask)),
            Member(FindingsKey,
                   DList(<<DDict(<<Member(ClaimKey, DStr(claim)),
                                   Member(SourceKey, DStr(source)),
                                   Member(DetailsKey, DStr(<<"x">>))>>)>>))>>)

Url == <<"h", ":", "/", "/", "u">>

\* values that conform to ResearchResult: every string holds a character
ResearchDocs ==
    { ResearchDoc(<<"s">>, c, <<"u">>) : c \in StringContents }
    \cup { ResearchDoc(<<"s">>, <<"x">>, Url) }

\* parse_llm_response(text, ResearchResult, fallback); origin is the value
\* the text is the serialization of, if it is one
ResponseInput(text, fallback, origin) ==
    [kind |-> "response", text |-> text, fallback |-> fallback,
     origin |-> origin]

\* texts longer than the preview, as long, and shorter
LongTexts ==
    { [i \in 1..n |-> "x"] : n \in (PreviewLen - 1)..(PreviewLen + 1) }

\* the texts of a response that is not the serialization of a value: one
\* part, an object in a json block after a line of prose, a long text
ResponseTexts ==
    { RenderAll(d) : d \in { doc \in Documents : Len(doc) <= 1 } }
    \cup { RenderAll(<<Prose(<<"x", "\n">>),
                       Block(<<"json">>, Dump(d, "compact", 0))>>) :
             d \in { ResearchDoc(<<"s">>, <<"x">>, <<"u">>),
                     ResearchDoc(<< >>, <<"x">>, <<"u">>) } }
    \cup LongTexts

ResponseInputs ==
    { ResponseInput(Dump(d, st, 0), None, d) :
        d \in ResearchDocs, st \in Styles }
    \cup { ResponseInput(t, f, NoValue) :
             t \in ResponseTexts, f \in FallbackParsers }

ParsingInputs ==
    { TextInput(d) : d \in Documents }
    \cup { TextInput(<<Prose(c)>>) : c \in Candidates }
    \cup { JsonTextInput(t) : t \in JsonTexts }
    \cup { PayloadInput(v) : v \in ResearchPayloads }
    \cup ResponseInputs

\* extract_json_from_text(text)
ExtractJsonFromText ==
    /\ pPc = "start"
    /\ pInput.kind = "text"
    /\ json_str' = extract_json_from_text(pInput.text)
    /\ pPc' = "extracted"
    /\ UNCHANGED <<programVars, pInput, cleaned, validated, llmVars>>

\* clean_json_string(json_str), on the text itself, on what was extracted
\* from it (parse_llm_response, lines 108-109), or on its own output
CleanJsonString ==
    /\ pPc \in {"start", "extracted", "cleaned"}
    /\ pInput.kind = "text"
    /\ Len(cleaned) < MaxCleans
    /\ LET arg == IF cleaned # << >> THEN cleaned[Len(cleaned)]
                  ELSE IF pPc = "extracted" THEN json_str.value
                  ELSE pInput.text
       IN  cleaned' = Append(cleaned, clean_json_string(arg))
    /\ pPc' = "cleaned"
    /\ UNCHANGED <<programVars, pInput, json_str, validated, llmVars>>

\* ResearchResult.model_validate(payload)
ValidateResearchResult ==
    /\ pPc = "start"
    /\ pInput.kind = "payload"
    /\ validated' = ResearchResult(pInput.value)
    /\ pPc' = "validated"
    /\ UNCHANGED <<programVars, pInput, json_str, cleaned, llmVars>>

\* lines 106-112: strategy 1, the candidate validated as JSON text
DirectParse ==
    /\ pPc = "start"
    /\ pInput.kind = "response"
    /\ LET outcome == DirectOutcome(pInput.text) IN
         /\ attempts' = Append(attempts,
               [strategy |-> "direct", outcome |-> outcome])
         /\ IF outcome.kind = "return"
            THEN /\ parsed' = outcome
                 /\ pPc' = "returned"
                 /\ UNCHANGED errors
            ELSE /\ errors' = Append(errors,
                       [prefix |-> "JSON parsing failed", cause |-> outcome.exc])
                 /\ pPc' = "strategy2"
                 /\ UNCHANGED parsed
    /\ UNCHANGED <<programVars, pInput, json_str, cleaned, validated,
                   fallbackCalls>>

\* lines 114-121: strategy 2, the candidate loaded and the data validated
DictParse ==
    /\ pPc = "strategy2"
    /\ LET outcome == DictOutcome(pInput.text) IN
         /\ attempts' = Append(attempts,
               [strategy |-> "dict", outcome |-> outcome])
         /\ IF outcome.kind = "return"
            THEN /\ parsed' = outcome
                 /\ pPc' = "returned"
                 /\ UNCHANGED errors
            ELSE /\ errors' = Append(errors,
                       [prefix |-> "Dict validation failed", cause |-> outcome.exc])
                 /\ pPc' = "strategy3"
                 /\ UNCHANGED parsed
    /\ UNCHANGED <<programVars, pInput, json_str, cleaned, validated,
                   fallbackCalls>>

\* the fallback parser given the candidate of the earlier strategies
FallbackParseGetsCandidate ==
    /\ pPc = "strategy3"
    /\ pInput.fallback # None
    /\ LET outcome == FallbackOutcome(pInput.fallback, CandidateOf(pInput.text)) IN
         /\ fallbackCalls' = Append(fallbackCalls, CandidateOf(pInput.text))
         /\ attempts' = Append(attempts,
               [strategy |-> "fallback", outcome |-> outcome])
         /\ IF outcome.kind = "return"
            THEN /\ parsed' = outcome
                 /\ pPc' = "returned"
                 /\ UNCHANGED errors
            ELSE /\ errors' = Append(errors,
                       [prefix |-> "Fallback parser failed", cause |-> outcome.exc])
                 /\ pPc' = "failing"
                 /\ UNCHANGED parsed
    /\ UNCHANGED <<programVars, pInput, json_str, cleaned, validated>>

\* lines 123-129: strategy 3, the fallback parser called on response_text
FallbackParse ==
    /\ pPc = "strategy3"
    /\ pInput.fallback # None
    /\ LET outcome == FallbackOutcome(pInput.fallback, pInput.text) IN
         /\ fallbackCalls' = Append(fallbackCalls, pInput.text)
         /\ attempts' = Append(attempts,
               [strategy |-> "fallback", outcome |-> outcome])
         /\ IF outcome.kind = "return"
            THEN /\ parsed' = outcome
                 /\ pPc' = "returned"
                 /\ UNCHANGED errors
            ELSE /\ errors' = Append(errors,
                       [prefix |-> "Fallback parser failed", cause |-> outcome.exc])
                 /\ pPc' = "failing"
                 /\ UNCHANGED parsed
    /\ UNCHANGED <<programVars, pInput, json_str, cleaned, validated>>

\* lines 131-136: no strategy is left
RaiseParseFailure ==
    /\ \/ pPc = "strategy3" /\ pInput.fallback = None
       \/ pPc = "failing"
    /\ parsed' = ParseFailure(errors, pInput.text)
    /\ pPc' = "raised"
    /\ UNCHANGED <<programVars, pInput, json_str, cleaned, validated, errors,
                   attempts, fallbackCalls>>

ParsingInit ==
    /\ ProgramInit
    /\ pPc = "start"
    /\ pInput \in ParsingInputs
    /\ json_str = NoValue
    /\ cleaned = << >>
    /\ validated = NoValue
    /\ errors = << >>
    /\ attempts = << >>
    /\ fallbackCalls = << >>
    /\ parsed = NoValue

ParsingNext ==
    \/ ExtractJsonFromText
    \/ CleanJsonString
    \/ ValidateResearchResult
    \/ DirectParse
    \/ DictParse
    \/ FallbackParse
    \/ RaiseParseFailure

ParsingSpec == ParsingInit /\ [][ParsingNext]_vars

----------------------------------------------------------------------------
(* Operators used to state the properties *)

IsToolUseBlock(b) == b.type = "tool_use"

\* the tool_use blocks of a content list, in order
ToolUseBlocksOf(content) == SelectSeq(content, IsToolUseBlock)

\* the tool_use blocks of the tool-requesting responses among rs, in order
RECURSIVE AllToolUses(_)
AllToolUses(rs) ==
    IF rs = << >> THEN << >>
    ELSE (IF Head(rs).stop_reason = "tool_use"
          THEN ToolUseBlocksOf(Head(rs).content) ELSE << >>)
         \o AllToolUses(Tail(rs))

\* the tool results held by the user turns that follow the first turn
RECURSIVE ResultsIn(_)
ResultsIn(msgs) ==
    IF Len(msgs) < 3 THEN << >>
    ELSE ResultsIn(SubSeq(msgs, 1, Len(msgs) - 2)) \o msgs[Len(msgs)].content

\* every tool result produced so far in the running call
ResultsSoFar ==
    ResultsIn(IF Len(messages) % 2 = 1
              THEN messages ELSE SubSeq(messages, 1, Len(messages) - 1))
    \o (IF ccPc = "dispatch" THEN tool_results ELSE << >>)

IsPrefix(a, b) == Len(a) <= Len(b) /\ a = SubSeq(b, 1, Len(a))

LastOf(seq) == seq[Len(seq)]

----------------------------------------------------------------------------
(* C1: when call_claude returns after k tool-requesting responses followed  *)
(* by a non-tool response, it has issued exactly k+1 requests and returns   *)
(* that last response; with k = 1 and a single tool request the executor    *)
(* was called exactly once, with the requested name and input.              *)
C1_RequestsPerToolRound ==
    ccPc = "returned" =>
        /\ Len(requests) = ToolRounds(responses) + 1
        /\ Len(responses) = Len(requests)
        /\ \A i \in 1..(Len(responses) - 1) : responses[i].stop_reason = "tool_use"
        /\ LastOf(responses).stop_reason # "tool_use"
        /\ ccResult = Returned(LastOf(responses))
        /\ (ToolRounds(responses) = 1 /\ ToolUsesIn(responses) = 1) =>
              LET b == AllToolUses(responses)[1] IN
              /\ Len(dispatchLog) = 1
              /\ dispatchLog[1].name = b.name
              /\ dispatchLog[1].input = b.input

C1_Witness ==
    /\ ccPc = "returned"
    /\ Len(requests) = 2
    /\ ToolRounds(responses) = 1
    /\ ToolUsesIn(responses) = 1
    /\ Len(dispatchLog) = 1

(* C2: every tool_use block of a tool-requesting response is dispatched     *)
(* exactly once, in response order; the next request's turn sequence ends   *)
(* with the assistant turn holding that response and one user turn holding  *)
(* one tool_result per tool_use block, with that block's id, whatever the   *)
(* executor did (returned, raised, returned an unserializable value).       *)
C2_OneResultPerToolUse ==
    executor # None =>
        /\ Len(dispatchLog) <= Len(AllToolUses(responses))
        /\ \A k \in 1..Len(dispatchLog) :
              /\ dispatchLog[k].id = AllToolUses(responses)[k].id
              /\ dispatchLog[k].name = AllToolUses(responses)[k].name
              /\ dispatchLog[k].input = AllToolUses(responses)[k].input
        /\ ccPc \in {"request", "returned", "raised"} =>
              Len(dispatchLog) = Len(AllToolUses(responses))
        /\ \A j \in 2..Len(requests) :
              LET m == requests[j].messages
                  n == Len(m)
                  blocks == ToolUseBlocksOf(responses[j - 1].content)
              IN  /\ n = Len(requests[j - 1].messages) + 2
                  /\ m[n - 1] = [role |-> "assistant",
                                 content |-> responses[j - 1].content]
                  /\ m[n].role = "user"
                  /\ Len(m[n].content) = Len(blocks)
                  /\ \A k \in 1..Len(blocks) :
                        /\ m[n].content[k].type = "tool_result"
                        /\ m[n].content[k].tool_use_id = blocks[k].id

C2_Witness ==
    /\ executor = "mock"
    /\ Len(requests) = 2
    /\ Len(dispatchLog) = 2
    /\ dispatchLog[1].outcome.kind = "raise"
    /\ dispatchLog[2].outcome = Returned("unserializable_object")
    /\ Len(LastOf(requests).messages[3].content) = 2

C4_NoExecutorFailsAtOnce ==
    (executor = None /\ \E i \in 1..Len(responses) :
                            responses[i].stop_reason = "tool_use") =>
        /\ ccPc = "raised"
        /\ ccResult.exc = "ValueError"
        /\ Len(responses) = 1
        /\ Len(requests) = 1
        /\ Len(messages) = 1
        /\ dispatchLog = << >>

C4_Witness ==
    /\ entry = "call_claude"
    /\ executor = None
    /\ tools
    /\ Len(responses) = 1
    /\ ToolUsesIn(responses) > 0
    /\ ccPc = "raised"

C6_ServiceFailurePropagates ==
    /\ [](serviceError # NoValue =>
             /\ ccPc = "raised"
             /\ ccResult = serviceError
             /\ Len(requests) = Len(responses) + 1
             /\ Len(dispatchLog) = Len(AllToolUses(responses)))
    /\ [][serviceError # NoValue =>
             UNCHANGED <<requests, responses, dispatchLog, messages, ccResult>>]_vars

C6_Witness ==
    /\ serviceError # NoValue
    /\ Len(requests) = 2
    /\ Len(dispatchLog) > 0

\* a response that requests web_search once
IsSearchRequest(r) ==
    /\ r.stop_reason = "tool_use"
    /\ Len(ToolUseBlocksOf(r.content)) = 1
    /\ ToolUseBlocksOf(r.content)[1].name = "web_search"

\* a final answer holding the findings for the subtask asked
IsFindingsAnswer(r) ==
    /\ r.stop_reason = "end_turn"
    /\ r.content # << >>
    /\ r.content[1].text \in
          { Text(f, JsonBody(ResearchDict(agArg, JList(<<Finding>>)))) :
              f \in {"none", "json"} }

\* the responses given so far follow the script: search request, then answer
FollowsSearchScript(rs) ==
    /\ Len(rs) <= 2
    /\ Len(rs) >= 1 => IsSearchRequest(rs[1])
    /\ Len(rs) = 2 => IsFindingsAnswer(rs[2])

(* C7: research called with tools and a tool_executor, against a model that *)
(* first requests web_search once and then gives a final answer with        *)
(* findings: the executor is called exactly once, with the requested name   *)
(* and input, and research returns the findings parsed from the answer.     *)
C7_ResearchCallsExecutorOnce ==
    ( /\ entry = "researcher"
      /\ agKwargs = {"tools", "tool_executor"}
      /\ agPc \in {"returned", "raised"}
      /\ serviceError = NoValue
      /\ FollowsSearchScript(responses) )
    => /\ agPc = "returned"
       /\ Len(responses) = 2
       /\ Len(dispatchLog) = 1
       /\ dispatchLog[1].name = "web_search"
       /\ dispatchLog[1].input = ToolUseBlocksOf(responses[1].content)[1].input
       /\ agResult = Returned(ResearchDict(agArg, JList(<<Finding>>)))

(* C8: when the Coordinator returned its subtasks, run_research_workflow    *)
(* fails only if a later agent call fails or the results do not conform to  *)
(* the WorkflowResult schema; the WorkflowResult it returns holds one       *)
(* research result per subtask and the Coordinator's subtasks verbatim.     *)
C8_WorkflowReachesDone ==
    (entry = "workflow" /\ subtasks # NoValue) =>
        /\ wfPc = "raised" =>
              \/ agPc = "raised"
              \/ wfResult.exc = "ValidationError"
        /\ wfPc = "done" =>
              /\ Len(wfResult.value.research_results) = Len(subtasks.v)
              /\ wfResult.value.subtasks = subtasks
              /\ wfCalls[1].agent = "coordinator"

\* the agents the workflow has called, in call order
CalledAgents == [k \in 1..Len(wfCalls) |-> wfCalls[k].agent]

\* the calls of a complete run over n subtasks
StageOrder(n) ==
    <<"coordinator">> \o [i \in 1..n |-> "researcher"]
    \o <<"synthesizer", "critic">>

C10_ResultsInSubtaskOrder ==
    ( /\ entry = "workflow"
      /\ wfPc \in {"done", "raised"}
      /\ subtasks # NoValue
      /\ agPc = "returned" )
    => LET n == Len(subtasks.v) IN
       /\ Len(wfCalls) = n + 3
       /\ \A i \in 1..n :
             /\ wfCalls[1 + i].agent = "researcher"
             /\ wfCalls[1 + i].arg = subtasks.v[i].v
       /\ Len(research_results) = n
       /\ \A i \in 1..n : research_results[i].v.subtask = subtasks.v[i]
       /\ wfCalls[n + 2].agent = "synthesizer"
       /\ wfCalls[n + 2].arg = JList(research_results)
       /\ wfCalls[n + 3].agent = "critic"
       /\ wfCalls[n + 3].arg = synthesis

(* C11: an agent call that fails during a run ends the run with that very   *)
(* failure: once the workflow has failed no further agent is called, no     *)
(* request is sent, and no WorkflowResult is ever returned.                 *)
C11_FailureAbortsRun ==
    /\ [](wfPc = "raised" =>
            /\ wfResult.kind = "raise"
            /\ agPc = "raised" => wfResult = agResult)
    /\ [][(entry = "workflow" /\ agPc = "raised")
            => (wfPc' = "raised" /\ UNCHANGED <<wfCalls, requests>>)]_vars
    /\ [][wfPc = "raised" => UNCHANGED <<wfCalls, wfResult, wfPc, requests>>]_vars

C11_Witness ==
    /\ entry = "workflow"
    /\ wfPc = "raised"
    /\ agPc = "raised"
    /\ agent = "coordinator"
    /\ Len(wfCalls) = 1
    /\ wfResult = agResult

\* the single failure each agent is to signal
DomainFailure(a) ==
    CASE a = "coordinator" -> "Coordination failed: "
      [] a = "researcher" -> "Research failed: "
      [] a = "synthesizer" -> "Synthesis failed: "
      [] a = "critic" -> "Critic review failed: "

(* C12: whatever goes wrong inside coordinate, research, synthesize or      *)
(* review (model call, extraction, JSON parsing, schema validation), the    *)
(* caller sees the agent's one RuntimeError domain failure and nothing else.*)
C12_SingleDomainFailure ==
    (agPc = "raised" /\ Binds(agent, agKwargs)) =>
        /\ agResult.exc = "RuntimeError"
        /\ agResult.msg[1] = DomainFailure(agent)

\* str.strip on the subtask strings of the model
StripStr(x) == IF x = " " THEN "" ELSE x

\* the final answer call_claude returned holds a fenced JSON list
FencedListAnswer ==
    /\ ccPc = "returned"
    /\ ccResult.value.content # << >>
    /\ "text" \in DOMAIN ccResult.value.content[1]
    /\ ccResult.value.content[1].text.fence \in {"json", "bare"}
    /\ "json" \in DOMAIN ccResult.value.content[1].text.body
    /\ ccResult.value.content[1].text.body.json.t = "list"

AnsweredList == ccResult.value.content[1].text.body.json

(* C13: coordinate, given a fenced list of length L, returns the subtasks   *)
(* exactly when 2 <= L <= 4 and every item is a string that is non-empty    *)
(* after trimming; otherwise the call fails (with which failure is the      *)
(* subject of C12).                                                         *)
C13_CoordinateAcceptsExactly ==
    (agent = "coordinator" /\ agPc \in {"returned", "raised"}
       /\ FencedListAnswer) =>
        IF /\ Len(AnsweredList.v) \in 2..4
           /\ \A i \in 1..Len(AnsweredList.v) :
                /\ AnsweredList.v[i].t = "str"
                /\ StripStr(AnsweredList.v[i].v) # ""
        THEN agPc = "returned" /\ agResult.value = AnsweredList
        ELSE agPc = "raised"

\* the final answer call_claude returned is plain numbered lines
LinesAnswer ==
    /\ ccPc = "returned"
    /\ ccResult.value.content # << >>
    /\ "text" \in DOMAIN ccResult.value.content[1]
    /\ ccResult.value.content[1].text.fence = "none"
    /\ "lines" \in DOMAIN ccResult.value.content[1].text.body

AnsweredLines == ccResult.value.content[1].text.body.lines

(* C14: when the Coordinator's answer is not structured data but 2 to 4     *)
(* numbered lines, coordinate returns those lines, markers stripped, as the *)
(* subtasks.                                                                *)
C14_CoordinateLineFallback ==
    (agent = "coordinator" /\ agPc \in {"returned", "raised"}
       /\ LinesAnswer /\ Len(AnsweredLines) \in 2..4) =>
        /\ agPc = "returned"
        /\ agResult.value =
             JList([i \in 1..Len(AnsweredLines) |-> JStr(AnsweredLines[i].text)])

(* C15: research never returns a result with an empty findings list and     *)
(* synthesize never returns a report with an empty sections list.           *)
C15_AgentsReturnNonEmpty ==
    agPc = "returned" =>
        /\ agent = "researcher" => Len(agResult.value.v.findings.v) >= 1
        /\ agent = "synthesizer" => Len(agResult.value.v.sections.v) >= 1

\* the payload validated gives a findings list
GivesFindings(x) == HasKey(x, "findings") /\ x.v.findings.t = "list"

\* every field the schema requires is present in the payload
FieldsPresent(x) ==
    /\ HasKey(x, "subtask")
    /\ \A i \in 1..Len(x.v.findings.v) :
         /\ x.v.findings.v[i].t = "dict"
         /\ \A k \in {"claim", "source", "details"} : HasKey(x.v.findings.v[i], k)

\* every field the schema requires is present and is a non-empty string
FieldsNonEmpty(x) ==
    /\ FieldsPresent(x)
    /\ NonEmptyStr(x.v.subtask)
    /\ \A i \in 1..Len(x.v.findings.v) :
         \A k \in {"claim", "source", "details"} :
            NonEmptyStr(x.v.findings.v[i].v[k])

(* C16, as stated: a payload whose findings list is empty is rejected, and  *)
(* a payload whose findings list has at least one finding is accepted       *)
(* whenever subtask and each finding's claim, source and details are        *)
(* present.                                                                 *)
C16_AcceptedWhenFieldsPresent ==
    (pPc = "validated" /\ GivesFindings(pInput.value)) =>
        /\ Len(pInput.value.v.findings.v) = 0 => validated.kind = "raise"
        /\ (Len(pInput.value.v.findings.v) >= 1 /\ FieldsPresent(pInput.value))
              => validated.kind = "return"

(* C16, amended: a payload that gives an empty findings list is rejected,   *)
(* and a payload that gives at least one finding is accepted, with the      *)
(* findings given, whenever subtask and each finding's claim, source and    *)
(* details are present as non-empty strings.                                *)
C16_AcceptedWhenFieldsNonEmpty ==
    (pPc = "validated" /\ GivesFindings(pInput.value)) =>
        /\ Len(pInput.value.v.findings.v) = 0 => validated.kind = "raise"
        /\ (Len(pInput.value.v.findings.v) >= 1 /\ FieldsNonEmpty(pInput.value))
              => /\ validated.kind = "return"
                 /\ validated.value.findings = pInput.value.v.findings.v

C16_Witness ==
    /\ pPc = "validated"
    /\ GivesFindings(pInput.value)
    /\ Len(pInput.value.v.findings.v) = 0
    /\ HasKey(pInput.value, "subtask")
    /\ NonEmptyStr(pInput.value.v.subtask)
    /\ validated.kind = "raise"

\* the fenced blocks of a text, in order
IsBlock(part) == part.kind = "block"
BlocksOf(doc) == SelectSeq(doc, IsBlock)
IsJsonBlock(part) == part.kind = "block" /\ part.tag = <<"json">>
JsonBlocksOf(doc) == SelectSeq(doc, IsJsonBlock)

(* C17: for a non-empty text that holds a fenced block tagged json, whatever*)
(* stands around it, extract_json_from_text gives exactly that block's      *)
(* inner content, trimmed.                                                  *)
C17_JsonBlockExtracted ==
    (json_str # NoValue /\ pInput.text # << >>
       /\ JsonBlocksOf(pInput.doc) # << >>) =>
        json_str = Returned(Strip(JsonBlocksOf(pInput.doc)[1].inner))

\* no fence, and no opening brace or bracket with its closer after it
NoFence(text) == Positions(text, Fence, 1) = {}
NoBraceStructure(text) ==
    \A i \in 1..Len(text) : \A j \in (i + 1)..Len(text) :
        ~(text[i] = "{" /\ text[j] = "}") /\ ~(text[i] = "[" /\ text[j] = "]")

(* C18, as stated: for a text with no fence and no brace or bracket         *)
(* structure extract_json_from_text gives the whole text trimmed, except    *)
(* that an empty text is signalled as an error.                             *)
C18_PlainTextOrError ==
    (json_str # NoValue /\ NoFence(pInput.text) /\ NoBraceStructure(pInput.text)) =>
        IF pInput.text = << >>
        THEN json_str.kind = "raise"
        ELSE json_str = Returned(Strip(pInput.text))

(* C18, amended: for a text with no fence and no brace or bracket structure *)
(* extract_json_from_text gives the whole text trimmed and raises nothing;  *)
(* an empty text gives the empty string.                                    *)
C18_PlainTextTrimmed ==
    (json_str # NoValue /\ NoFence(pInput.text) /\ NoBraceStructure(pInput.text)) =>
        json_str = Returned(Strip(pInput.text))

C18_Witness ==
    /\ json_str # NoValue
    /\ NoFence(pInput.text)
    /\ NoBraceStructure(pInput.text)
    /\ Strip(pInput.text) # << >>
    /\ Strip(pInput.text) # pInput.text
    /\ json_str = Returned(Strip(pInput.text))

(* C19: for a text with fenced blocks none of which is tagged json,         *)
(* extract_json_from_text gives the inner content of the first fenced block *)
(* without its language tag.                                                *)
C19_FirstBlockWithoutTag ==
    (json_str # NoValue /\ JsonBlocksOf(pInput.doc) = << >>
       /\ BlocksOf(pInput.doc) # << >>) =>
        json_str = Returned(Strip(BlocksOf(pInput.doc)[1].inner))

(* C20: clean_json_string is idempotent: applied to its own output it gives *)
(* that output again.                                                       *)
C20_CleanIdempotent ==
    \A i \in 2..Len(cleaned) : cleaned[i] = cleaned[i - 1]

\* the user message the running call was given
CurrentUserMessage ==
    IF entry = "call_claude" THEN CallMessage(Len(earlier) + 1)
    ELSE UserMessage(agent, agArg)

(* C25: the first request of a call_claude call carries exactly one turn,   *)
(* the user turn holding the user message; the turn sequence of each later  *)
(* request is the one of the request before it, unchanged, followed by one  *)
(* assistant turn (the response just received) and one user turn; so the    *)
(* roles alternate and every request starts and ends with a user turn.      *)
C25_TurnSequenceGrows ==
    \A k \in 1..Len(requests) :
        LET turns == requests[k].messages IN
        /\ Len(turns) = 2 * k - 1
        /\ turns[1] = [role |-> "user", content |-> CurrentUserMessage]
        /\ \A i \in 1..Len(turns) :
              turns[i].role = IF i % 2 = 1 THEN "user" ELSE "assistant"
        /\ k > 1 =>
              LET before == requests[k - 1].messages IN
              /\ SubSeq(turns, 1, Len(before)) = before
              /\ turns[Len(before) + 1] =
                    [role |-> "assistant", content |-> responses[k - 1].content]
              /\ turns[Len(before) + 2].role = "user"

C25_Witness ==
    /\ ccPc = "returned"
    /\ Len(requests) = 3
    /\ Len(LastOf(requests).messages) = 5

\* call_claude has ended
CallEnded == ccPc \in {"returned", "raised"}

(* C26: call_claude returns only a response whose stop reason is not        *)
(* tool_use, and raises only when the model service failed or tools were    *)
(* requested with no tool_executor; handling a tool-requesting response     *)
(* never ends the call, however many came before: the loop has no cap of    *)
(* its own; and once the model service gives no further tool-requesting     *)
(* response, a running call ends.                                           *)
C26_EndsExactlyOnFinalResponseOrError ==
    /\ [](ccPc = "returned" =>
            /\ ~IsToolUse(LastOf(responses))
            /\ ccResult = Returned(LastOf(responses)))
    /\ [](ccPc = "raised" =>
            \/ serviceError # NoValue /\ ccResult = serviceError
            \/ IsToolUse(LastOf(responses)) /\ executor = None)
    /\ [][(ccPc = "dispatch") => (ccPc' \in {"dispatch", "request"})]_vars
    /\ [][(ccPc = "request" /\ Len(responses') > Len(responses)
            /\ IsToolUse(LastOf(responses')) /\ executor # None)
           => ccPc' = "dispatch"]_vars
    /\ ((ccPc = "request") ~> CallEnded)

\* a call still running after the model service asked for tools in each of
\* its MaxRounds responses
C26_Witness ==
    /\ entry = "call_claude"
    /\ ccPc = "request"
    /\ Len(responses) = MaxRounds
    /\ ToolRounds(responses) = MaxRounds

\* the invocation ids of the turns produced during the calls that ended
EarlierIds == UNION { earlier[c].ids : c \in 1..Len(earlier) }

(* C27: a call_claude call made after other calls of the same agent starts  *)
(* from a fresh turn sequence: its first request carries the one user turn  *)
(* of this call, and no request of it carries a tool_use block or a tool    *)
(* result of an earlier call.                                               *)
C27_FreshTurnSequencePerCall ==
    \A k \in 1..Len(requests) :
        /\ requests[1].messages =
              << [role |-> "user", content |-> CurrentUserMessage] >>
        /\ IdsOfTurns(requests[k].messages) \cap EarlierIds = {}

\* a second call with a tool round of its own, after a call with a tool round
C27_Witness ==
    /\ Len(earlier) = 1
    /\ EarlierIds # {}
    /\ Len(requests) = 2
    /\ IdsOfTurns(requests[2].messages) # {}

\* a tool-requesting response that holds no tool_use block
IsEmptyToolRequest(r) == IsToolUse(r) /\ ToolUseBlocksOf(r.content) = << >>

(* C30: after a response with stop reason tool_use that holds no tool_use   *)
(* block, a call_claude given a tool_executor neither returns nor raises:   *)
(* the executor is not called for that response, and the next request       *)
(* carries the turns so far, the assistant turn holding the response and a  *)
(* user turn holding an empty list of results.                              *)
C30_EmptyToolRequestGoesOn ==
    \A k \in 1..Len(responses) :
        (IsEmptyToolRequest(responses[k]) /\ executor # None) =>
            /\ \A d \in 1..Len(dispatchLog) : dispatchLog[d].round # k
            /\ Len(requests) = k => ccPc \in {"dispatch", "request"}
            /\ Len(requests) > k =>
                  requests[k + 1].messages =
                      requests[k].messages
                      \o << [role |-> "assistant", content |-> responses[k].content],
                            [role |-> "user", content |-> << >>] >>

C30_Witness ==
    /\ executor # None
    /\ Len(requests) = 2
    /\ IsEmptyToolRequest(responses[1])
    /\ LastOf(requests[2].messages) = [role |-> "user", content |-> << >>]

\* the run of main failed: it did not print a result
MainFailed == mainPc = "exited" /\ (config # "ok" \/ wfPc = "raised")

C29_ConstraintsCheckedAtTheEnd ==
    ( /\ entry = "workflow"
      /\ wfPc \in {"done", "raised"}
      /\ subtasks # NoValue
      /\ agPc = "returned" )
    => /\ LastOf(wfCalls).agent = "critic"
       /\ wfResult = WorkflowResult(Query, subtasks, research_results,
                                    synthesis, critique)

\* parse_llm_response has ended
ParseEnded == pInput.kind = "response" /\ pPc \in {"returned", "raised"}

(* C21: for a value that conforms to ResearchResult, whatever characters    *)
(* its strings hold, parse_llm_response given the JSON serialization of the *)
(* value (compact, spaced or indented) and ResearchResult returns a model   *)
(* equal to the value.                                                      *)
C21_RoundTrip ==
    (ParseEnded /\ pInput.origin # NoValue) =>
        /\ pPc = "returned"
        /\ parsed = ResearchResult(ValueOf(pInput.origin))

StrategyOrder == <<"direct", "dict", "fallback">>

\* the strategies tried so far, in the order they were tried
StrategiesTried == [i \in 1..Len(attempts) |-> attempts[i].strategy]

(* C22: parse_llm_response tries the direct parse, then the generic parse   *)
(* with validation, then the fallback parser, each only after the one       *)
(* before failed, and returns the first success; the fallback parser is     *)
(* called at most once, only if one was given and both earlier strategies   *)
(* failed, and its argument is the raw response text.                       *)
C22_StrategiesInOrder ==
    /\ IsPrefix(StrategiesTried, StrategyOrder)
    /\ \A i \in 1..(Len(attempts) - 1) : attempts[i].outcome.kind = "raise"
    /\ (attempts # << >> /\ LastOf(attempts).outcome.kind = "return") =>
          pPc = "returned"
    /\ pPc = "returned" =>
          (parsed.kind = "return" /\ parsed = LastOf(attempts).outcome)
    /\ Len(fallbackCalls) <= 1
    /\ fallbackCalls # << >> =>
          /\ pInput.fallback # None
          /\ StrategiesTried = StrategyOrder
          /\ fallbackCalls = << pInput.text >>

\* the fallback parser succeeded on a text that is not its own candidate
C22_Witness ==
    /\ pPc = "returned"
    /\ StrategiesTried = StrategyOrder
    /\ fallbackCalls = << pInput.text >>
    /\ CandidateOf(pInput.text) # pInput.text

\* the strategies parse_llm_response has for the response
AvailableStrategies ==
    IF pInput.fallback = None THEN <<"direct", "dict">> ELSE StrategyOrder

(* C23: parse_llm_response raises its failure only after every strategy it  *)
(* has for the response (two, or three with a fallback parser) was tried    *)
(* and failed; the failure holds one message per strategy tried, in order,  *)
(* and as preview the first PreviewLen characters of the response text, the *)
(* whole text if it is shorter.                                             *)
C23_FailureAfterAllStrategies ==
    (pInput.kind = "response" /\ pPc = "raised") =>
        /\ StrategiesTried = AvailableStrategies
        /\ \A i \in 1..Len(attempts) : attempts[i].outcome.kind = "raise"
        /\ parsed.kind = "raise"
        /\ Len(parsed.msg.errors) = Len(attempts)
        /\ \A i \in 1..Len(attempts) :
              parsed.msg.errors[i].cause = attempts[i].outcome.exc
        /\ IsPrefix(parsed.msg.preview, pInput.text)
        /\ CharCount(parsed.msg.preview) =
              IF CharCount(pInput.text) < PreviewLen
              THEN CharCount(pInput.text) ELSE PreviewLen

\* three strategies failed on a text longer than the preview
C23_Witness ==
    /\ pInput.kind = "response"
    /\ pPc = "raised"
    /\ pInput.fallback # None
    /\ Len(parsed.msg.errors) = 3
    /\ CharCount(pInput.text) > PreviewLen
    /\ Len(parsed.msg.preview) = PreviewLen

(* C28: for a text that is valid JSON, whatever its string values hold,     *)
(* clean_json_string gives valid JSON that loads to the same value.         *)
C28_CleanPreservesJson ==
    ( /\ pInput.kind = "text"
      /\ pPc = "cleaned"
      /\ json_str = NoValue
      /\ json_loads(pInput.text).kind = "return" )
    => json_loads(cleaned[1]) = json_loads(pInput.text)

============================================================================
